---- MODULE Spec2Model ----
(***************************************************************************)
(* Model of the template engine of src/templateparser.py: the Parser       *)
(* cache, the Template compiler (block lexer, tag lexer, scope stack) and  *)
(* the evaluation of text, tag and loop nodes.                             *)
(*                                                                         *)
(* Python str values are TLA+ strings; the model's templates are ASCII, so *)
(* the unicode -> utf8 encoding of TemplateTag.Parse changes no character. *)
(* Python objects are records with a type field t; template nodes are      *)
(* records with a kind field k; every call returns a record whose field    *)
(* err names the exception that left the call ("" when it returned).       *)
(*                                                                         *)
(* The blocks if, elif, else and endif are not in src/templateparser.py,   *)
(* which rejects them as unknown functions; they are modelled after their  *)
(* documented behaviour, which src/test_templateparser.py exercises.       *)
(***************************************************************************)
EXTENDS Integers, Sequences, FiniteSets, TLC

\* ---------------------------------------------------------------- strings

Ch(s, i) == SubSeq(s, i, i)

CharsOf(s) == {Ch(s, i) : i \in 1..Len(s)}

Digits == "0123456789"

\* \w of the re module for ASCII input
WordChars ==
  CharsOf("abcdefghijklmnopqrstuvwxyzABCDEFGHIJKLMNOPQRSTUVWXYZ0123456789_")

\* a character class that admits the space as well
TagCharsLoose == WordChars \cup {":", "|", " "}

\* the character class [\w:|] of Template.TAG
TagChars == WordChars \cup {":", "|"}

\* \s of the re module and the separators of str.split()
Whitespace == {" "}

\* str.isdigit()
IsDigit(s) == Len(s) > 0 /\ \A i \in 1..Len(s) : Ch(s, i) \in CharsOf(Digits)

DigitVal(c) == CHOOSE d \in 0..9 : Ch(Digits, d + 1) = c

RECURSIVE ToInt(_)
\* int(needle) for a string of digits
ToInt(s) ==
  IF Len(s) = 0 THEN 0
  ELSE 10 * ToInt(SubSeq(s, 1, Len(s) - 1)) + DigitVal(Ch(s, Len(s)))

RECURSIVE IntStr(_)
\* unicode(n) for a natural number
IntStr(n) ==
  IF n < 10 THEN Ch(Digits, n + 1)
  ELSE IntStr(n \div 10) \o Ch(Digits, (n % 10) + 1)

RECURSIVE Join(_)
\* ''.join(parts)
Join(parts) ==
  IF Len(parts) = 0 THEN "" ELSE Head(parts) \o Join(Tail(parts))

RECURSIVE Find(_, _, _)
\* the first index >= from at which pat occurs in s, 0 when there is none
Find(s, pat, from) ==
  IF from + Len(pat) - 1 > Len(s) THEN 0
  ELSE IF SubSeq(s, from, from + Len(pat) - 1) = pat THEN from
  ELSE Find(s, pat, from + 1)

RECURSIVE Split(_, _)
\* s.split(sep) for a one-character separator
Split(s, sep) ==
  LET i == Find(s, sep, 1)
  IN IF i = 0 THEN <<s>>
     ELSE <<SubSeq(s, 1, i - 1)>> \o Split(SubSeq(s, i + 1, Len(s)), sep)

RECURSIVE LStrip(_, _)
LStrip(s, chars) ==
  IF Len(s) > 0 /\ Ch(s, 1) \in chars THEN LStrip(Tail(s), chars) ELSE s

RECURSIVE RStrip(_, _)
RStrip(s, chars) ==
  IF Len(s) > 0 /\ Ch(s, Len(s)) \in chars
  THEN RStrip(SubSeq(s, 1, Len(s) - 1), chars) ELSE s

\* s.strip(chars)
Strip(s, chars) == RStrip(LStrip(s, chars), chars)

RECURSIVE Words(_)
\* s.split(): the maximal runs of non-whitespace characters
Words(s) ==
  LET t == LStrip(s, Whitespace)
      i == Find(t, " ", 1)
  IN IF Len(t) = 0 THEN <<>>
     ELSE IF i = 0 THEN <<t>>
     ELSE <<SubSeq(t, 1, i - 1)>> \o Words(SubSeq(t, i, Len(t)))

RECURSIVE Replace(_, _, _)
\* text.replace(old, new) for a one-character old
Replace(text, old, new) ==
  IF Len(text) = 0 THEN ""
  ELSE (IF Ch(text, 1) = old THEN new ELSE Ch(text, 1))
         \o Replace(Tail(text), old, new)

\* ------------------------------------------------------------ the lexers

RECURSIVE RunEnd(_, _)
\* the first index >= i of s whose character is outside [\w:|]
RunEnd(s, i) ==
  IF i <= Len(s) /\ Ch(s, i) \in TagChars THEN RunEnd(s, i + 1) ELSE i

\* Template.TAG matches at index i of s: `[`, one or more of [\w:|], `]`
TagMatchAt(s, i) ==
  /\ i <= Len(s)
  /\ Ch(s, i) = "["
  /\ RunEnd(s, i + 1) > i + 1
  /\ RunEnd(s, i + 1) <= Len(s)
  /\ Ch(s, RunEnd(s, i + 1)) = "]"

\* Template.TAG.match(tag): a match anchored at the start of the string
TagMatch(tag) == TagMatchAt(tag, 1)

RECURSIVE TagSearch(_, _)
\* the start of the leftmost match of Template.TAG at or after i, 0 if none
TagSearch(s, i) ==
  IF i > Len(s) THEN 0
  ELSE IF TagMatchAt(s, i) THEN i
  ELSE TagSearch(s, i + 1)

RECURSIVE TagSplit(_)
\* Template.TAG.split(node): text, group, text, ..., group, text
TagSplit(s) ==
  LET i == TagSearch(s, 1)
      j == RunEnd(s, i + 1)
  IN IF i = 0 THEN <<s>>
     ELSE <<SubSeq(s, 1, i - 1), SubSeq(s, i + 1, j - 1)>>
            \o TagSplit(SubSeq(s, j + 1, Len(s)))

RECURSIVE FunctionSplit(_)
\* Template.FUNCTION.split(raw_template): text, group, text, ..., group, text.
\* The lazy group ends at the first `}}` after the leftmost `{{`, and the
\* two \s* leave it stripped of whitespace.
FunctionSplit(s) ==
  LET i == Find(s, "{{", 1)
      k == IF i = 0 THEN 0 ELSE Find(s, "}}", i + 2)
  IN IF k = 0 THEN <<s>>
     ELSE <<SubSeq(s, 1, i - 1), Strip(SubSeq(s, i + 2, k - 1), Whitespace)>>
            \o FunctionSplit(SubSeq(s, k + 2, Len(s)))

\* ------------------------------------------------------------ TemplateTag

\* TemplateTag.__init__
TemplateTag(name, indices, functions) ==
  [k |-> "tag", name |-> name, indices |-> indices, functions |-> functions]

\* TemplateTag.FromString
FromString(tag) ==
  LET tag_and_funcs == Split(Strip(tag, {"[", "]"}), "|")
      name_and_indices == Split(tag_and_funcs[1], ":")
  IN TemplateTag(name_and_indices[1], Tail(name_and_indices),
                 Tail(tag_and_funcs))

\* TagStr with the function suffixes left out
TagStrNoFunctions(tag) ==
  "[" \o tag.name
      \o Join([i \in 1..Len(tag.indices) |-> ":" \o tag.indices[i]])
      \o "]"

\* TemplateTag.__str__
TagStr(tag) ==
  "[" \o tag.name
      \o Join([i \in 1..Len(tag.indices) |-> ":" \o tag.indices[i]])
      \o Join([i \in 1..Len(tag.functions) |-> "|" \o tag.functions[i]])
      \o "]"

\* ---------------------------------------------------------- Python values

EmptyMap == [x \in {} |-> x]

Str(s) == [t |-> "str", s |-> s, safe |-> FALSE]

\* class SafeString(str)
SafeString(s) == [t |-> "str", s |-> s, safe |-> TRUE]

PyInt(n) == [t |-> "int", n |-> n]

None == [t |-> "none"]

List(items) == [t |-> "list", items |-> items]

\* a dict (ikeys: its int keys, skeys: its str keys); attrs holds the class
\* attributes of a dict subclass
Dict(ikeys, skeys, attrs) ==
  [t |-> "dict", ikeys |-> ikeys, skeys |-> skeys, attrs |-> attrs]

\* an instance of a plain class with the given attributes
Object(attrs) == [t |-> "obj", attrs |-> attrs]

Ok(val) == [err |-> "", val |-> val]

Raise(err) == [err |-> err, val |-> None]

\* haystack[n] for an int n
SubscriptInt(haystack, n) ==
  CASE haystack.t = "list" ->
         IF n < Len(haystack.items) THEN Ok(haystack.items[n + 1])
         ELSE Raise("IndexError")
    [] haystack.t = "str" ->
         IF n < Len(haystack.s) THEN Ok(Str(Ch(haystack.s, n + 1)))
         ELSE Raise("IndexError")
    [] haystack.t = "dict" ->
         IF n \in DOMAIN haystack.ikeys THEN Ok(haystack.ikeys[n])
         ELSE Raise("KeyError")
    [] OTHER -> Raise("TypeError")

\* haystack[key] for a str key
SubscriptStr(haystack, key) ==
  IF haystack.t = "dict"
  THEN IF key \in DOMAIN haystack.skeys THEN Ok(haystack.skeys[key])
       ELSE Raise("KeyError")
  ELSE Raise("TypeError")

\* getattr(haystack, name); the methods of the builtin types are not modelled
GetAttr(haystack, name) ==
  IF haystack.t \in {"dict", "obj"} /\ name \in DOMAIN haystack.attrs
  THEN Ok(haystack.attrs[name])
  ELSE Raise("AttributeError")

\* _GetIndex, were it to look for the attribute before the key
GetIndexAttrFirst(haystack, needle) ==
  LET byint == SubscriptInt(haystack, ToInt(needle))
      bystr == SubscriptStr(haystack, needle)
      byattr == GetAttr(haystack, needle)
      found == IF IsDigit(needle)
               THEN IF byint.err = "KeyError" THEN bystr ELSE byint
               ELSE IF byattr.err = "AttributeError" THEN bystr ELSE byattr
  IN IF found.err \in {"AttributeError", "IndexError", "KeyError"}
     THEN Raise("TemplateKeyError")
     ELSE found

\* TemplateTag._GetIndex
GetIndex(haystack, needle) ==
  LET byint == SubscriptInt(haystack, ToInt(needle))
      bystr == SubscriptStr(haystack, needle)
      found == IF IsDigit(needle)
               THEN IF byint.err = "KeyError" THEN bystr ELSE byint
               ELSE IF bystr.err \in {"KeyError", "TypeError"}
                    THEN GetAttr(haystack, needle)
                    ELSE bystr
  IN IF found.err \in {"AttributeError", "IndexError", "KeyError"}
     THEN Raise("TemplateKeyError")
     ELSE found

RECURSIVE ReduceIndices(_, _)
\* the loop over self.indices of TemplateTag.GetValue
ReduceIndices(value, indices) ==
  IF Len(indices) = 0 THEN Ok(value)
  ELSE LET r == GetIndex(value, Head(indices))
       IN IF r.err # "" THEN r ELSE ReduceIndices(r.val, Tail(indices))

\* TemplateTag.GetValue
GetValue(tag, kwds) ==
  IF tag.name \notin DOMAIN kwds THEN Raise("TemplateKeyError")
  ELSE LET r == ReduceIndices(kwds[tag.name], tag.indices)
       IN IF r.err = "KeyError" THEN Raise("TemplateKeyError") ELSE r

\* ---------------------------------------------------------- tag functions

\* the printable ASCII characters from 32 (space) to 95 (_), in code order
PrintableLow ==
  " !\"#$%&'()*+,-./0123456789:;<=>?@ABCDEFGHIJKLMNOPQRSTUVWXYZ[\\]^_"

\* the printable ASCII characters from 97 (a) to 126 (~), in code order
PrintableHigh == "abcdefghijklmnopqrstuvwxyz{|}~"

\* ord(c) for a printable ASCII character
Ord(c) ==
  IF c \in CharsOf(PrintableLow)
  THEN 31 + (CHOOSE i \in 1..Len(PrintableLow) : Ch(PrintableLow, i) = c)
  ELSE 96 + (CHOOSE i \in 1..Len(PrintableHigh) : Ch(PrintableHigh, i) = c)

HexDigits == "0123456789ABCDEF"

RECURSIVE JoinSep(_, _)
\* sep.join(parts)
JoinSep(parts, sep) ==
  IF Len(parts) = 0 THEN ""
  ELSE IF Len(parts) = 1 THEN parts[1]
  ELSE parts[1] \o sep \o JoinSep(Tail(parts), sep)

\* a dict of at most one key: the only dicts whose repr has one order
OneKey(v) ==
  /\ v.t = "dict"
  /\ Cardinality(DOMAIN v.ikeys) + Cardinality(DOMAIN v.skeys) <= 1

RECURSIVE Repr(_)
\* repr(v) of a str without quotes or backslashes, an int, None, and a list
\* or a dict of at most one key of these; "?" is a repr the model does not
\* compute
Repr(v) ==
  CASE v.t = "str" -> "'" \o v.s \o "'"
    [] v.t = "int" -> IntStr(v.n)
    [] v.t = "none" -> "None"
    [] v.t = "list" ->
         "[" \o JoinSep([i \in 1..Len(v.items) |-> Repr(v.items[i])], ", ")
             \o "]"
    [] OneKey(v) ->
         IF DOMAIN v.ikeys # {}
         THEN LET n == CHOOSE n \in DOMAIN v.ikeys : TRUE
              IN "{" \o IntStr(n) \o ": " \o Repr(v.ikeys[n]) \o "}"
         ELSE IF DOMAIN v.skeys # {}
         THEN LET n == CHOOSE n \in DOMAIN v.skeys : TRUE
              IN "{'" \o n \o "': " \o Repr(v.skeys[n]) \o "}"
         ELSE "{}"
    [] OTHER -> "?"

RECURSIVE Printed(_)
\* the values whose unicode() and repr() the model computes
Printed(v) ==
  \/ v.t \in {"str", "int", "none"}
  \/ v.t = "list" /\ \A i \in 1..Len(v.items) : Printed(v.items[i])
  \/ /\ OneKey(v)
     /\ \A n \in DOMAIN v.ikeys : Printed(v.ikeys[n])
     /\ \A n \in DOMAIN v.skeys : Printed(v.skeys[n])

\* unicode(text) of HtmlEscape, for a value that is not a basestring
Unicode(v) == IF v.t = "str" THEN v.s ELSE Repr(v)

\* HtmlEscape, were it to replace the ampersand last
HtmlEscapeAmpLast(text) ==
  LET t0 == Unicode(text)
      h1 == Replace(t0, "\"", "&quot;")
      h2 == Replace(h1, "'", "&#39;")
      h3 == Replace(h2, ">", "&gt;")
      h4 == Replace(h3, "<", "&lt;")
  IN IF Printed(text) THEN Ok(Str(Replace(h4, "&", "&amp;")))
     ELSE Raise("Unmodelled")

\* HtmlEscape
HtmlEscape(text) ==
  LET t0 == Unicode(text)
      h1 == Replace(t0, "&", "&amp;")
      h2 == Replace(h1, "\"", "&quot;")
      h3 == Replace(h2, "'", "&#39;")
      h4 == Replace(h3, ">", "&gt;")
  IN IF Printed(text) THEN Ok(Str(Replace(h4, "<", "&lt;")))
     ELSE Raise("Unmodelled")

RECURSIVE Quote(_)
\* urllib.quote(s, safe=' '): the always-safe characters and the space stay
Quote(s) ==
  IF Len(s) = 0 THEN ""
  ELSE LET c == Ch(s, 1)
           n == Ord(c)
       IN (IF c \in WordChars \cup {".", "-", " "} THEN c
           ELSE "%" \o Ch(HexDigits, (n \div 16) + 1)
                    \o Ch(HexDigits, (n % 16) + 1))
            \o Quote(Tail(s))

\* urllib.quote_plus of a str; of an int or None it raises TypeError
QuotePlus(v) ==
  CASE v.t = "str" -> Ok(Str(Replace(Quote(v.s), " ", "+")))
    [] v.t \in {"int", "none"} -> Raise("TypeError")
    [] OTHER -> Raise("Unmodelled")

\* TAG_FUNCTIONS as the module defines it: name -> function
TAG_FUNCTIONS ==
  [n \in {"default", "html", "raw", "url"} |->
     CASE n = "default" -> "HtmlEscape"
       [] n = "html" -> "HtmlEscape"
       [] n = "raw" -> "identity"
       [] n = "url" -> "quote_plus"]

\* the call function(value) of a registered function
ApplyFunction(function, value) ==
  CASE function = "HtmlEscape" -> HtmlEscape(value)
    [] function = "identity" -> Ok(value)
    [] function = "quote_plus" -> QuotePlus(value)
    [] function = "twice" ->
         IF value.t = "str" THEN Ok(Str(value.s \o " " \o value.s))
         ELSE Raise("TypeError")
    [] OTHER -> Raise("Unmodelled")

RECURSIVE ApplyFunctionsSkip(_, _, _)
\* ApplyFunctions that passes over a name TAG_FUNCTIONS does not hold
ApplyFunctionsSkip(value, functions, fns) ==
  IF Len(functions) = 0 THEN Ok(value)
  ELSE IF Head(functions) \notin DOMAIN fns
       THEN ApplyFunctionsSkip(value, Tail(functions), fns)
  ELSE LET r == ApplyFunction(fns[Head(functions)], value)
       IN IF r.err # "" THEN r
          ELSE ApplyFunctionsSkip(r.val, Tail(functions), fns)

RECURSIVE ApplyFunctionsReversed(_, _, _)
\* ApplyFunctions that begins with the last function of the pipeline
ApplyFunctionsReversed(value, functions, fns) ==
  IF Len(functions) = 0 THEN Ok(value)
  ELSE LET name == functions[Len(functions)]
       IN IF name \notin DOMAIN fns THEN Raise("KeyError")
          ELSE LET r == ApplyFunction(fns[name], value)
               IN IF r.err # "" THEN r
                  ELSE ApplyFunctionsReversed(
                         r.val, SubSeq(functions, 1, Len(functions) - 1), fns)

RECURSIVE ApplyFunctions(_, _, _)
\* the loop over self.functions of TemplateTag.Parse
ApplyFunctions(value, functions, fns) ==
  IF Len(functions) = 0 THEN Ok(value)
  ELSE IF Head(functions) \notin DOMAIN fns THEN Raise("KeyError")
  ELSE LET r == ApplyFunction(fns[Head(functions)], value)
       IN IF r.err # "" THEN r
          ELSE ApplyFunctions(r.val, Tail(functions), fns)

\* isinstance(value, SafeString)
IsSafeString(value) == value.t = "str" /\ value.safe

\* TemplateTag.Parse
TagParse(tag, kwds, fns) ==
  LET got == GetValue(tag, kwds)
  IN IF got.err = "TemplateKeyError" THEN Ok(Str(TagStr(tag)))
     ELSE IF got.err # "" THEN got
     ELSE IF Len(tag.functions) > 0
          THEN ApplyFunctions(got.val, tag.functions, fns)
     ELSE IF ~IsSafeString(got.val)
          THEN ApplyFunctions(got.val, <<"default">>, fns)
     ELSE got

\* ------------------------------------------------------------- evaluation

\* Bind that leaves a name the mapping already holds as it was
BindAbsent(kwds, alias, value) ==
  [n \in DOMAIN kwds \cup {alias} |->
     IF n \in DOMAIN kwds THEN kwds[n] ELSE value]

\* replacements[alias] = value on a copy of the mapping
Bind(kwds, alias, value) ==
  [n \in DOMAIN kwds \cup {alias} |-> IF n = alias THEN value ELSE kwds[n]]

\* the elements a for statement draws from a value, in order; a dict of more
\* than one key has no order the model can name
Iterate(value) ==
  CASE value.t = "list" -> [err |-> "", items |-> value.items]
    [] value.t = "str" ->
         [err |-> "",
          items |-> [i \in 1..Len(value.s) |-> Str(Ch(value.s, i))]]
    [] value.t = "dict" ->
         IF Cardinality(DOMAIN value.ikeys) + Cardinality(DOMAIN value.skeys) = 0
         THEN [err |-> "", items |-> <<>>]
         ELSE IF Cardinality(DOMAIN value.ikeys) = 1 /\ DOMAIN value.skeys = {}
         THEN [err |-> "",
               items |-> <<PyInt(CHOOSE n \in DOMAIN value.ikeys : TRUE)>>]
         ELSE IF Cardinality(DOMAIN value.skeys) = 1 /\ DOMAIN value.ikeys = {}
         THEN [err |-> "",
               items |-> <<Str(CHOOSE n \in DOMAIN value.skeys : TRUE)>>]
         ELSE [err |-> "Unmodelled", items |-> <<>>]
    [] OTHER -> [err |-> "TypeError", items |-> <<>>]

\* bool(value)
Truthy(value) ==
  CASE value.t = "str" -> Len(value.s) > 0
    [] value.t = "int" -> value.n # 0
    [] value.t = "none" -> FALSE
    [] value.t = "list" -> Len(value.items) > 0
    [] value.t = "dict" -> DOMAIN value.ikeys \cup DOMAIN value.skeys # {}
    [] OTHER -> TRUE

\* the literal a guard compares a tag with: digits are an int, anything else
\* a str, quoted or not
Literal(word) ==
  IF IsDigit(word) THEN PyInt(ToInt(word)) ELSE Str(Strip(word, {"\""}))

\* value == literal
PyEq(value, literal) ==
  /\ value.t = literal.t
  /\ \/ value.t = "int" /\ value.n = literal.n
     \/ value.t = "str" /\ value.s = literal.s

\* a guard operand is a tag in brackets and nothing else
IsTagWord(word) == TagMatch(word) /\ RunEnd(word, 2) = Len(word)

\* one operand of a guard: `[tag]` or `[tag] == literal`
EvalOperand(words, kwds) ==
  LET got == GetValue(FromString(words[1]), kwds)
  IN IF Len(words) \notin {1, 3} \/ (Len(words) = 3 /\ words[2] # "==")
     THEN [err |-> "TemplateSyntaxError", truth |-> FALSE]
     ELSE IF ~IsTagWord(words[1])
     THEN [err |-> "TemplateNameError", truth |-> FALSE]
     ELSE IF got.err # "" THEN [err |-> got.err, truth |-> FALSE]
     ELSE [err |-> "",
           truth |-> IF Len(words) = 1 THEN Truthy(got.val)
                     ELSE PyEq(got.val, Literal(words[3]))]

RECURSIVE EvalGuard(_, _)
\* a guard is `operand or operand or ...`, evaluated left to right and only
\* as far as the first true operand
EvalGuard(words, kwds) ==
  LET cut == CHOOSE i \in 1..(Len(words) + 1) :
               /\ i = Len(words) + 1 \/ words[i] = "or"
               /\ \A j \in 1..(i - 1) : words[j] # "or"
      first == IF cut = 1 THEN [err |-> "TemplateSyntaxError", truth |-> FALSE]
               ELSE EvalOperand(SubSeq(words, 1, cut - 1), kwds)
  IN IF first.err # "" \/ first.truth \/ cut > Len(words) THEN first
     ELSE EvalGuard(SubSeq(words, cut + 1, Len(words)), kwds)

RECURSIVE NodeParse(_, _, _)
RECURSIVE JoinParse(_, _, _)
RECURSIVE LoopIterations(_, _, _, _, _)
RECURSIVE BranchParse(_, _, _, _)

\* ''.join(tag.Parse(**kwds) for tag in nodes): the first exception of a
\* member leaves the call; join then takes nothing but strings
JoinParse(nodes, kwds, fns) ==
  LET Joined(rs) ==
        LET bad == {i \in 1..Len(nodes) : rs[i].err # ""}
        IN IF bad # {} THEN rs[CHOOSE i \in bad : \A j \in bad : i <= j]
           ELSE IF \E i \in 1..Len(nodes) : rs[i].val.t # "str"
                THEN Raise("TypeError")
           ELSE Ok(Str(Join([i \in 1..Len(nodes) |-> rs[i].val.s])))
  IN Joined([i \in 1..Len(nodes) |-> NodeParse(nodes[i], kwds, fns)])

\* Template.Parse returning the joined str without wrapping it in SafeString
TemplateParsePlain(tmpl, kwds, fns) == JoinParse(tmpl.body, kwds, fns)

\* Template.Parse
TemplateParse(tmpl, kwds, fns) ==
  LET Safe(r) == IF r.err # "" THEN r ELSE Ok(SafeString(r.val.s))
  IN Safe(JoinParse(tmpl.body, kwds, fns))

RECURSIVE LoopIterationsLast(_, _, _, _, _)
\* LoopIterations with the output list replaced, not extended, by each item
LoopIterationsLast(loop, replacements, items, fns, output) ==
  LET Rest(bound, r) ==
        IF r.err # "" THEN r
        ELSE LoopIterationsLast(loop, bound, Tail(items), fns, r.val.s)
      Body(bound) == Rest(bound, JoinParse(loop.body, bound, fns))
  IN IF Len(items) = 0 THEN Ok(Str(output))
     ELSE Body(Bind(replacements, loop.alias, Head(items)))

\* the for statement of TemplateLoop.Parse: one evaluation of the body per
\* item, the alias rebound in the one copy of the mapping
LoopIterations(loop, replacements, items, fns, output) ==
  LET Rest(bound, r) ==
        IF r.err # "" THEN r
        ELSE LoopIterations(loop, bound, Tail(items), fns, output \o r.val.s)
      Body(bound) == Rest(bound, JoinParse(loop.body, bound, fns))
  IN IF Len(items) = 0 THEN Ok(Str(output))
     ELSE Body(Bind(replacements, loop.alias, Head(items)))

\* TemplateLoop.Parse
LoopParse(loop, kwds, fns) ==
  LET Loop(it) ==
        IF it.err # "" THEN Raise(it.err)
        ELSE LoopIterations(loop, kwds, it.items, fns, "")
      Over(got) == IF got.err # "" THEN got ELSE Loop(Iterate(got.val))
  IN Over(GetValue(loop.tag, kwds))

\* BranchParse with every guard from index i on evaluated before one is chosen
BranchParseEager(branches, i, kwds, fns) ==
  LET gs == [j \in i..Len(branches) |->
               IF branches[j].isElse THEN [err |-> "", truth |-> TRUE]
               ELSE EvalGuard(branches[j].guard, kwds)]
      bad == {j \in i..Len(branches) : gs[j].err # ""}
      yes == {j \in i..Len(branches) : gs[j].truth}
  IN IF bad # {} THEN Raise(gs[CHOOSE j \in bad : \A k \in bad : j <= k].err)
     ELSE IF yes = {} THEN Ok(Str(""))
     ELSE JoinParse(branches[CHOOSE j \in yes : \A k \in yes : j <= k].body,
                    kwds, fns)

\* the branches of a conditional from index i on: the body of the first whose
\* guard holds, or of the else branch, or nothing
BranchParse(branches, i, kwds, fns) ==
  LET Taken(g) ==
        IF g.err # "" THEN Raise(g.err)
        ELSE IF g.truth THEN JoinParse(branches[i].body, kwds, fns)
        ELSE BranchParse(branches, i + 1, kwds, fns)
  IN IF i > Len(branches) THEN Ok(Str(""))
     ELSE Taken(IF branches[i].isElse THEN [err |-> "", truth |-> TRUE]
                ELSE EvalGuard(branches[i].guard, kwds))

\* TemplateConditional.Parse
ConditionalParse(cond, kwds, fns) == BranchParse(cond.branches, 1, kwds, fns)

\* NodeParse that parses an inlined Template with no replacements
NodeParseBare(node, kwds, fns) ==
  CASE node.k = "text" -> Ok(Str(node.s))
    [] node.k = "tag" -> TagParse(node, kwds, fns)
    [] node.k = "loop" -> LoopParse(node, kwds, fns)
    [] node.k = "cond" -> ConditionalParse(node, kwds, fns)
    [] node.k = "tmpl" -> TemplateParse(node, EmptyMap, fns)
    [] OTHER -> Raise("AttributeError")

\* tag.Parse(**kwds) for a member of a Template or of a TemplateLoop; a str
\* stored in the cache and inlined has no Parse method
NodeParse(node, kwds, fns) ==
  CASE node.k = "text" -> Ok(Str(node.s))
    [] node.k = "tag" -> TagParse(node, kwds, fns)
    [] node.k = "loop" -> LoopParse(node, kwds, fns)
    [] node.k = "cond" -> ConditionalParse(node, kwds, fns)
    [] node.k = "tmpl" -> TemplateParse(node, kwds, fns)
    [] OTHER -> Raise("AttributeError")

\* ------------------------------------------------------------ compilation

(***************************************************************************)
(* A Template is [k, body, scopes, parser]: body is the list itself,       *)
(* parser tells whether a Parser is attached, and scopes is the stack      *)
(* self.scopes. A scope is the path of member indices that leads from the  *)
(* Template to the open block, so scopes[1] = <<>> is the Template itself. *)
(* Members are only ever appended, so a path keeps naming the same object. *)
(* The members of a conditional are those of its last branch.              *)
(***************************************************************************)

Last(seq) == seq[Len(seq)]

Front(seq) == SubSeq(seq, 1, Len(seq) - 1)

\* TemplateText
TemplateText(s) == [k |-> "text", s |-> s]

\* TemplateLoop.__init__
TemplateLoop(tag, alias) ==
  [k |-> "loop", tag |-> FromString(tag), alias |-> alias, body |-> <<>>]

\* a conditional opened by `if <guard>`
TemplateConditional(guard) ==
  [k |-> "cond",
   branches |-> <<[guard |-> guard, isElse |-> FALSE, body |-> <<>>]>>]

\* the members of a block
Members(node) ==
  IF node.k = "cond" THEN Last(node.branches).body ELSE node.body

RECURSIVE NodeAt(_, _)
\* the block a non-empty path leads to
NodeAt(nodes, path) ==
  IF Len(path) = 1 THEN nodes[path[1]]
  ELSE NodeAt(Members(nodes[path[1]]), Tail(path))

\* the list a scope appends to
MembersAt(nodes, path) ==
  IF Len(path) = 0 THEN nodes ELSE Members(NodeAt(nodes, path))

RECURSIVE AppendAt(_, _, _)
\* scope.append(item) for the scope at path
AppendAt(nodes, path, item) ==
  IF Len(path) = 0 THEN Append(nodes, item)
  ELSE LET node == nodes[path[1]]
           grown == AppendAt(Members(node), Tail(path), item)
       IN [nodes EXCEPT ![path[1]] =
             IF node.k = "cond"
             THEN [node EXCEPT !.branches[Len(node.branches)].body = grown]
             ELSE [node EXCEPT !.body = grown]]

RECURSIVE ReplaceAt(_, _, _)
\* the list with the block at a non-empty path replaced
ReplaceAt(nodes, path, block) ==
  IF Len(path) = 1 THEN [nodes EXCEPT ![path[1]] = block]
  ELSE LET node == nodes[path[1]]
           grown == ReplaceAt(Members(node), Tail(path), block)
       IN [nodes EXCEPT ![path[1]] =
             IF node.k = "cond"
             THEN [node EXCEPT !.branches[Len(node.branches)].body = grown]
             ELSE [node EXCEPT !.body = grown]]

\* the state of Template.__init__ before its call of AddString
EmptyTemplate(parser) ==
  [k |-> "tmpl", body |-> <<>>, scopes |-> << <<>> >>, parser |-> parser]

\* Template._AddPart
AddPart(t, item) ==
  [t EXCEPT !.body = AppendAt(t.body, Last(t.scopes), item)]

\* type(self.scopes[-1])
ScopeKind(t) ==
  IF Len(Last(t.scopes)) = 0 THEN "tmpl" ELSE NodeAt(t.body, Last(t.scopes)).k

RECURSIVE ExtendPieces(_, _, _)
\* the loop of Template._ExtendText over TAG.split(node), from index j
ExtendPieces(t, pieces, j) ==
  LET Then(added) == ExtendPieces(added, pieces, j + 1)
  IN IF j > Len(pieces) THEN t
     ELSE IF j % 2 = 0 THEN Then(AddPart(t, FromString(pieces[j])))
     ELSE IF Len(pieces[j]) > 0 THEN Then(AddPart(t, TemplateText(pieces[j])))
     ELSE Then(t)

\* Template._ExtendText
ExtendText(t, node) == ExtendPieces(t, TagSplit(node), 1)

\* the exceptions AddTemplate and FromFile catch as IOError
IOErrors == {"IOError", "TemplateReadError"}

\* the result of a call that builds or extends a Template: the exception, the
\* Template and the Parser's state w = [cache, reads]
Built(err, t, w) == [err |-> err, t |-> t, w |-> w]

\* ExtendConditional without the check for a branch after `else`
ExtendConditionalLoose(t, name, data) ==
  LET top == NodeAt(t.body, Last(t.scopes))
      branch == [guard |-> data, isElse |-> name = "else", body |-> <<>>]
      more == [top EXCEPT !.branches = Append(@, branch)]
  IN CASE name = "if" ->
            [err |-> "",
             t |-> [AddPart(t, TemplateConditional(data)) EXCEPT
                      !.scopes = Append(@, Last(t.scopes) \o
                        <<Len(MembersAt(t.body, Last(t.scopes))) + 1>>)]]
       [] name \in {"elif", "else"} ->
            IF ScopeKind(t) # "cond"
            THEN [err |-> "TemplateSyntaxError", t |-> t]
            ELSE [err |-> "",
                  t |-> [t EXCEPT
                           !.body = ReplaceAt(@, Last(t.scopes), more)]]
       [] OTHER ->
            IF ScopeKind(t) # "cond"
            THEN [err |-> "TemplateSyntaxError", t |-> t]
            ELSE [err |-> "", t |-> [t EXCEPT !.scopes = Front(@)]]

\* the blocks `if`, `elif`, `else` and `endif`
ExtendConditional(t, name, data) ==
  LET top == NodeAt(t.body, Last(t.scopes))
      branch == [guard |-> data, isElse |-> name = "else", body |-> <<>>]
      more == [top EXCEPT !.branches = Append(@, branch)]
  IN CASE name = "if" ->
            [err |-> "",
             t |-> [AddPart(t, TemplateConditional(data)) EXCEPT
                      !.scopes = Append(@, Last(t.scopes) \o
                        <<Len(MembersAt(t.body, Last(t.scopes))) + 1>>)]]
       [] name \in {"elif", "else"} ->
            IF ScopeKind(t) # "cond" \/ Last(top.branches).isElse
            THEN [err |-> "TemplateSyntaxError", t |-> t]
            ELSE [err |-> "",
                  t |-> [t EXCEPT
                           !.body = ReplaceAt(@, Last(t.scopes), more)]]
       [] OTHER ->
            IF ScopeKind(t) # "cond"
            THEN [err |-> "TemplateSyntaxError", t |-> t]
            ELSE [err |-> "", t |-> [t EXCEPT !.scopes = Front(@)]]

RECURSIVE NewTemplate(_, _, _, _, _)
RECURSIVE AddString(_, _, _, _, _)
RECURSIVE ExtendNodes(_, _, _, _, _, _)
RECURSIVE ExtendFunction(_, _, _, _, _)
RECURSIVE AddFile(_, _, _, _, _)
RECURSIVE GetItem(_, _, _, _)
RECURSIVE AddTemplate(_, _, _, _)
RECURSIVE FromFile(_, _, _, _, _)

\* Template.FromFile: files maps a path to [exists, content]; depth counts the
\* loads that may still nest before the interpreter's recursion limit
FromFile(path, parser, w, files, depth) ==
  LET Read(made) ==
        IF made.err \in IOErrors THEN [made EXCEPT !.err = "TemplateReadError"]
        ELSE made
      Open(opened) ==
        IF path \notin DOMAIN files \/ ~files[path].exists
        THEN Built("TemplateReadError", EmptyTemplate(parser), opened)
        ELSE Read(NewTemplate(files[path].content, parser, opened, files,
                              depth - 1))
  IN IF depth = 0 THEN Built("RuntimeError", EmptyTemplate(parser), w)
     ELSE Open([w EXCEPT !.reads = @ + 1])

\* AddTemplate that drops the entry of a template it could not read
AddTemplateEvict(w, template, files, depth) ==
  LET Store(made) ==
        IF made.err \in IOErrors
        THEN [err |-> "TemplateReadError",
              w |-> [made.w EXCEPT !.cache =
                       [n \in DOMAIN @ \ {template} |-> @[n]]]]
        ELSE IF made.err # "" THEN [err |-> made.err, w |-> made.w]
        ELSE [err |-> "",
              w |-> [made.w EXCEPT !.cache = Bind(@, template, made.t)]]
  IN Store(FromFile(template, TRUE, w, files, depth))

\* AddTemplate that puts an empty Template under the name before it compiles
AddTemplateEarly(w, template, files, depth) ==
  LET Store(made) ==
        IF made.err \in IOErrors
        THEN [err |-> "TemplateReadError", w |-> made.w]
        ELSE IF made.err # "" THEN [err |-> made.err, w |-> made.w]
        ELSE [err |-> "",
              w |-> [made.w EXCEPT !.cache = Bind(@, template, made.t)]]
  IN Store(FromFile(template, TRUE,
                    [w EXCEPT !.cache = BindAbsent(@, template,
                                                   EmptyTemplate(TRUE))],
                    files, depth))

\* AddTemplate that stores what a failed compilation left
AddTemplateKeep(w, template, files, depth) ==
  LET Store(made) ==
        IF made.err \in IOErrors
        THEN [err |-> "TemplateReadError", w |-> made.w]
        ELSE [err |-> made.err,
              w |-> [made.w EXCEPT !.cache = Bind(@, template, made.t)]]
  IN Store(FromFile(template, TRUE, w, files, depth))

\* AddTemplate that puts the new Template in the place of the old one in the
\* cached Templates that inlined it
AddTemplateRelink(w, template, files, depth) ==
  LET Relinked(dict, made) ==
        [n \in DOMAIN dict \cup {template} |->
           IF n = template THEN made
           ELSE IF dict[n].k = "tmpl" /\ template \in DOMAIN dict
           THEN [dict[n] EXCEPT !.body =
                   [i \in DOMAIN @ |->
                      IF @[i] = dict[template] THEN made ELSE @[i]]]
           ELSE dict[n]]
      Store(made) ==
        IF made.err \in IOErrors
        THEN [err |-> "TemplateReadError", w |-> made.w]
        ELSE IF made.err # "" THEN [err |-> made.err, w |-> made.w]
        ELSE [err |-> "",
              w |-> [made.w EXCEPT !.cache = Relinked(@, made.t)]]
  IN Store(FromFile(template, TRUE, w, files, depth))

\* Parser.AddTemplate, with template_dir the working directory
AddTemplate(w, template, files, depth) ==
  LET Store(made) ==
        IF made.err \in IOErrors
        THEN [err |-> "TemplateReadError", w |-> made.w]
        ELSE IF made.err # "" THEN [err |-> made.err, w |-> made.w]
        ELSE [err |-> "",
              w |-> [made.w EXCEPT !.cache = Bind(@, template, made.t)]]
  IN Store(FromFile(template, TRUE, w, files, depth))

\* GetItem that loads the template whether the dict holds it or not
GetItemReload(w, template, files, depth) ==
  LET Get(added) ==
        IF added.err # "" THEN [err |-> added.err, val |-> None, w |-> added.w]
        ELSE [err |-> "", val |-> added.w.cache[template], w |-> added.w]
  IN Get(AddTemplate(w, template, files, depth))

\* Parser.__getitem__
GetItem(w, template, files, depth) ==
  LET Get(added) ==
        IF added.err # "" THEN [err |-> added.err, val |-> None, w |-> added.w]
        ELSE [err |-> "", val |-> added.w.cache[template], w |-> added.w]
  IN Get(IF template \notin DOMAIN w.cache
         THEN AddTemplate(w, template, files, depth)
         ELSE [err |-> "", w |-> w])

\* AddFile that loads the file through the Parser whether it is cached or not
AddFileReload(t, name, w, files, depth) ==
  LET Part(got) ==
        IF got.err # "" THEN Built(got.err, t, got.w)
        ELSE Built("", AddPart(t, got.val), got.w)
      Dropped(made) == Built(made.err, t, made.w)
  IN IF t.parser THEN Part(GetItemReload(w, name, files, depth))
     ELSE Dropped(FromFile(name, FALSE, w, files, depth))

\* Template.AddFile
AddFile(t, name, w, files, depth) ==
  LET Part(got) ==
        IF got.err # "" THEN Built(got.err, t, got.w)
        ELSE Built("", AddPart(t, got.val), got.w)
      Dropped(made) == Built(made.err, t, made.w)
  IN IF t.parser THEN Part(GetItem(w, name, files, depth))
     ELSE Dropped(FromFile(name, FALSE, w, files, depth))

\* _ExtendFunction whose endfor pops the top scope whatever it is
ExtendFunctionPop(t, node, w, files, depth) ==
  LET data == Words(node)
      name == data[1]
      args == Tail(data)
      Clause(cond) == Built(cond.err, cond.t, w)
      open == Last(t.scopes) \o <<Len(MembersAt(t.body, Last(t.scopes))) + 1>>
  IN IF Len(data) = 0 THEN Built("IndexError", t, w)
     ELSE CASE name = "inline" ->
                 IF Len(args) = 0 THEN Built("IndexError", t, w)
                 ELSE AddFile(t, args[1], w, files, depth)
            [] name = "for" ->
                 IF Len(args) # 3 THEN Built("ValueError", t, w)
                 ELSE IF ~TagMatch(args[3])
                 THEN Built("TemplateSyntaxError", t, w)
                 ELSE Built("",
                            [AddPart(t, TemplateLoop(args[3], args[1])) EXCEPT
                               !.scopes = Append(@, open)],
                            w)
            [] name = "endfor" ->
                 Built("", [t EXCEPT !.scopes = Front(@)], w)
            [] name \in {"if", "elif", "else", "endif"} ->
                 Clause(ExtendConditional(t, name, args))
            [] OTHER -> Built("TemplateSyntaxError", t, w)

\* Template._ExtendFunction
ExtendFunction(t, node, w, files, depth) ==
  LET data == Words(node)
      name == data[1]
      args == Tail(data)
      Clause(cond) == Built(cond.err, cond.t, w)
      open == Last(t.scopes) \o <<Len(MembersAt(t.body, Last(t.scopes))) + 1>>
  IN IF Len(data) = 0 THEN Built("IndexError", t, w)
     ELSE CASE name = "inline" ->
                 IF Len(args) = 0 THEN Built("IndexError", t, w)
                 ELSE AddFile(t, args[1], w, files, depth)
            [] name = "for" ->
                 IF Len(args) # 3 THEN Built("ValueError", t, w)
                 ELSE IF ~TagMatch(args[3])
                 THEN Built("TemplateSyntaxError", t, w)
                 ELSE Built("",
                            [AddPart(t, TemplateLoop(args[3], args[1])) EXCEPT
                               !.scopes = Append(@, open)],
                            w)
            [] name = "endfor" ->
                 IF ScopeKind(t) = "loop"
                 THEN Built("", [t EXCEPT !.scopes = Front(@)], w)
                 ELSE Built("TemplateSyntaxError", t, w)
            [] name \in {"if", "elif", "else", "endif"} ->
                 Clause(ExtendConditional(t, name, args))
            [] OTHER -> Built("TemplateSyntaxError", t, w)

\* the loop of Template.AddString over FUNCTION.split(raw_template), from
\* index i; it ends at the first exception
ExtendNodes(t, nodes, i, w, files, depth) ==
  LET Then(r) ==
        IF r.err # "" THEN r
        ELSE ExtendNodes(r.t, nodes, i + 1, r.w, files, depth)
  IN IF i > Len(nodes) THEN Built("", t, w)
     ELSE IF i % 2 = 0 THEN Then(ExtendFunction(t, nodes[i], w, files, depth))
     ELSE Then(Built("", ExtendText(t, nodes[i]), w))

\* AddString without the comparison of the scope depths
AddStringUnchecked(t, raw_template, w, files, depth) ==
  ExtendNodes(t, FunctionSplit(raw_template), 1, w, files, depth)

\* Template.AddString
AddString(t, raw_template, w, files, depth) ==
  LET scope_depth == Len(t.scopes)
      Balanced(r) ==
        IF r.err = "" /\ Len(r.t.scopes) # scope_depth
        THEN [r EXCEPT !.err = "TemplateSyntaxError"]
        ELSE r
  IN Balanced(ExtendNodes(t, FunctionSplit(raw_template), 1, w, files, depth))

\* Template.__init__
NewTemplate(raw_template, parser, w, files, depth) ==
  AddString(EmptyTemplate(parser), raw_template, w, files, depth)

RECURSIVE AddTemplates(_, _, _, _)
\* the loop of Parser.__init__ over templates; it ends at the first exception
AddTemplates(w, templates, files, depth) ==
  LET Then(r) ==
        IF r.err # "" THEN r
        ELSE AddTemplates(r.w, Tail(templates), files, depth)
  IN IF Len(templates) = 0 THEN [err |-> "", w |-> w]
     ELSE Then(AddTemplate(w, Head(templates), files, depth))

\* Parser.Parse
ParserParse(w, template, replacements, fns, files, depth) ==
  LET Parsed(r, after) == [err |-> r.err, val |-> r.val, w |-> after]
      Got(got) ==
        IF got.err # "" THEN [err |-> got.err, val |-> None, w |-> got.w]
        ELSE Parsed(NodeParse(got.val, replacements, fns), got.w)
  IN Got(GetItem(w, template, files, depth))

\* Parser.ParseString
ParseString(w, template, replacements, fns, files, depth) ==
  LET Parsed(r, after) == [err |-> r.err, val |-> r.val, w |-> after]
      Made(made) ==
        IF made.err # "" THEN [err |-> made.err, val |-> None, w |-> made.w]
        ELSE Parsed(TemplateParse(made.t, replacements, fns), made.w)
  IN Made(NewTemplate(template, TRUE, w, files, depth))

\* ------------------------------------------------------------------ state

VARIABLES
  files,          \* the template directory: name -> [exists, content]
  cache,          \* the Parser, a dict: name -> what was stored under it
  loaded,         \* history: name -> how its entry came to be in the cache
  tag_functions,  \* the module's TAG_FUNCTIONS
  raw,            \* the raw template of the Template under construction
  kwds,           \* the replacements of the caller
  tmpl,           \* the outcome of Template(raw): [err, t]
  result,         \* the outcome of the last call
  callers,        \* the threads inside Parser.__getitem__: caller -> position
  adding          \* the AddString call in progress on tmpl, and those made

vars ==
  <<files, cache, loaded, tag_functions, raw, kwds, tmpl, result, callers,
    adding>>

\* the most loads of template files that nest before Python's recursion limit
MaxDepth == 3

\* no Template constructed yet
NoTemplate == [err |-> "unbuilt", t |-> EmptyTemplate(FALSE)]

\* no call made yet
NoResult ==
  [op |-> "", name |-> "", templates |-> <<>>, err |-> "", val |-> None,
   reads |-> 0, hit |-> FALSE, built |-> {}]

\* no thread is inside a call
NoCallers == EmptyMap

\* no AddString call in progress: nodes is FUNCTION.split(raw_template), i the
\* index of the node to extend with (0 outside a call), scope_depth the depth
\* of the scopes when the call began, calls the calls begun so far, and held
\* tells whether Template(...) has returned the Template to the caller
NotAdding ==
  [nodes |-> <<>>, i |-> 0, scope_depth |-> 0, calls |-> 0, held |-> FALSE]

\* a Parser's state at the start of a call: its dict, and no file opened yet
World(dict) == [cache |-> dict, reads |-> 0]

NoFile == [exists |-> FALSE, content |-> ""]

File(content) == [exists |-> TRUE, content |-> content]

RECURSIVE Concats(_, _)
\* the strings made of at most n of the given pieces
Concats(pieces, n) ==
  IF n = 0 THEN {""}
  ELSE {""} \cup {p \o s : p \in pieces, s \in Concats(pieces, n - 1)}

\* ---------------------------------------------- Template(raw) and its Parse

\* tmpl = Template(raw), with no Parser attached
Construct ==
  /\ tmpl.err = "unbuilt"
  /\ LET made == NewTemplate(raw, FALSE, World(cache), files, MaxDepth)
     IN /\ tmpl' = [err |-> made.err, t |-> made.t]
        /\ result' = [NoResult EXCEPT !.op = "Template", !.err = made.err,
                                      !.reads = made.w.reads]
  /\ UNCHANGED <<adding, callers, files, cache, loaded, tag_functions, raw, kwds>>

\* result = tmpl.Parse(**kwds)
ParseTemplate ==
  /\ tmpl.err = ""
  /\ result.op = "Template"
  /\ LET r == TemplateParse(tmpl.t, kwds, tag_functions)
     IN result' = [NoResult EXCEPT !.op = "Parse", !.err = r.err,
                                   !.val = r.val]
  /\ UNCHANGED <<adding, callers, files, cache, loaded, tag_functions, raw, kwds, tmpl>>

\* the name under which a caller hands the output of one Parse to the next
FeedName == "q"

\* the second templates of such a caller
FeedTemplates == {"<[q]>"}

\* the output of Parse becomes a replacement of a second template
Feed ==
  /\ result.op = "Parse"
  /\ result.err = ""
  /\ FeedName \notin DOMAIN kwds
  /\ raw' \in FeedTemplates
  /\ kwds' = Bind(kwds, FeedName, result.val)
  /\ tmpl' = NoTemplate
  /\ result' = NoResult
  /\ UNCHANGED <<adding, callers, files, cache, loaded, tag_functions>>

NextTemplate == Construct \/ ParseTemplate \/ Feed

\* the part of the state the Template specifications leave alone
InitParser ==
  /\ files = [n \in {"sub"} |-> File("sub [x]")]
  /\ cache = EmptyMap
  /\ loaded = EmptyMap
  /\ tag_functions = TAG_FUNCTIONS
  /\ callers = NoCallers
  /\ adding = NotAdding

InitTemplate(raws, mappings) ==
  /\ InitParser
  /\ raw \in raws
  /\ kwds \in mappings
  /\ tmpl = NoTemplate
  /\ result = NoResult

\* --------------------------------------------- templates of text and tags

\* the most pieces of a raw template of text and tags
MaxTagPieces == 3

TagPieces ==
  {"a<", "[x]", "[y:0|raw]", "[x:k]", "[y|html|url]", "[x y]", "[", "]", "x"}

TagMappings ==
  { EmptyMap,
    [n \in {"x"} |-> Str("<b>&")],
    [n \in {"x"} |-> SafeString("<i>")],
    [n \in {"x"} |-> Dict(EmptyMap, [k \in {"k"} |-> PyInt(7)], EmptyMap)],
    [n \in {"y"} |-> List(<<Str("'"), PyInt(10)>>)],
    [n \in {"x", "y"} |-> IF n = "x" THEN None ELSE Str("c d")] }

InitTag == InitTemplate(Concats(TagPieces, MaxTagPieces), TagMappings)

SpecTag == InitTag /\ [][NextTemplate]_vars

\* no reachable call meets a value or a function the model does not compute
Modelled == result.err # "Unmodelled"

\* the source text, brackets excluded, of the tags in the text of a raw
\* template
TextTags(template) ==
  LET nodes == FunctionSplit(template)
  IN UNION {{TagSplit(nodes[i])[j] :
               j \in {j \in 1..Len(TagSplit(nodes[i])) : j % 2 = 0}} :
            i \in {i \in 1..Len(nodes) : i % 2 = 1}}

\* a tag's name: its source text up to the first colon or pipe
NameOf(source) ==
  SubSeq(source, 1,
         (CHOOSE i \in 1..(Len(source) + 1) :
            /\ i = Len(source) + 1 \/ Ch(source, i) \in {":", "|"}
            /\ \A j \in 1..(i - 1) : Ch(source, j) \notin {":", "|"}) - 1)

\* a raw template without a {{ }} block
NoBlocks(template) == Len(FunctionSplit(template)) = 1

\* what a tag of the given source contributes when the mapping lacks its name,
\* and what it contributes otherwise
Emitted(source, mapping) ==
  IF NameOf(source) \notin DOMAIN mapping THEN Ok(Str("[" \o source \o "]"))
  ELSE TagParse(FromString(source), mapping, tag_functions)

\* C1: a tag whose name the replacement mapping lacks is parsed without error
\* to its own source text, brackets, indices and function suffixes included;
\* in the output of Template.Parse that text stands at the tag's position,
\* between the texts and the values of the other tags.
C1_PassThrough ==
  result.op = "Parse" =>
    /\ \A source \in TextTags(raw) :
         NameOf(source) \notin DOMAIN kwds =>
           TagParse(FromString(source), kwds, tag_functions)
             = Ok(Str("[" \o source \o "]"))
    /\ NoBlocks(raw) =>
         LET pieces == TagSplit(raw)
             part == [j \in 1..Len(pieces) |->
                        IF j % 2 = 1 THEN Ok(Str(pieces[j]))
                        ELSE Emitted(pieces[j], kwds)]
         IN (\A j \in 1..Len(pieces) :
               part[j].err = "" /\ part[j].val.t = "str")
              => /\ result.err = ""
                 /\ result.val.s
                      = Join([j \in 1..Len(pieces) |-> part[j].val.s])

\* a Parse whose template holds a tag with an index and a function, whose name
\* the non-empty mapping lacks, beside a tag that is replaced
C1_Witness ==
  /\ result.op = "Parse"
  /\ result.err = ""
  /\ raw = "[x][y:0|raw]"
  /\ DOMAIN kwds = {"x"}
  /\ kwds["x"] = SafeString("<i>")
  /\ result.val.s = "<i>[y:0|raw]"

\* the entity HtmlEscape puts for a character
Entity(c) ==
  CASE c = "&" -> "&amp;"
    [] c = "\"" -> "&quot;"
    [] c = "'" -> "&#39;"
    [] c = "<" -> "&lt;"
    [] c = ">" -> "&gt;"
    [] OTHER -> c

\* a text with each of its characters escaped once
EscapedOnce(text) == Join([i \in 1..Len(text) |-> Entity(Ch(text, i))])

\* C2: Template.Parse returns a SafeString; a tag without functions emits a
\* SafeString value as it is and any other value HTML-escaped exactly once;
\* so the output of one Parse, handed to a tag without functions of a second
\* template, appears in the second output as it was.
C2_SafeString ==
  result.op = "Parse" =>
    /\ result.err = "" => IsSafeString(result.val)
    /\ \A source \in TextTags(raw) :
         LET tag == FromString(source)
             got == GetValue(tag, kwds)
         IN (Len(tag.functions) = 0 /\ got.err = "") =>
              TagParse(tag, kwds, tag_functions)
                = IF IsSafeString(got.val) THEN Ok(got.val)
                  ELSE Ok(Str(EscapedOnce(Unicode(got.val))))
    /\ (raw = "<[q]>" /\ FeedName \in DOMAIN kwds) =>
         /\ result.err = ""
         /\ result.val.s = "<" \o kwds[FeedName].s \o ">"

\* the output of a Parse that escaped a value, emitted as it was by the tag of
\* a second template
C2_Witness ==
  /\ result.op = "Parse"
  /\ raw = "<[q]>"
  /\ FeedName \in DOMAIN kwds
  /\ kwds[FeedName].s = "&lt;b&gt;&amp;"
  /\ result.val = SafeString("<&lt;b&gt;&amp;>")

\* ------------------------------------------------------ templates of loops

\* the most pieces of a raw template of loops
MaxLoopPieces == 4

LoopPieces ==
  {"[n]", "{{ for n in [xs] }}", "{{ for n in [n] }}[n]{{ endfor }}[n]",
   "{{ endfor }}", "a"}

LoopMappings ==
  { EmptyMap,
    [n \in {"n", "xs"} |-> IF n = "n" THEN Str("o") ELSE List(<<>>)],
    [n \in {"n", "xs"} |->
       IF n = "n" THEN Str("o") ELSE List(<<Str("uv"), Str(""), Str("<")>>)],
    [n \in {"n", "xs"} |->
       IF n = "n" THEN List(<<PyInt(1)>>)
       ELSE List(<<List(<<Str("p"), PyInt(2)>>), List(<<>>)>>)] }

InitLoop == InitTemplate(Concats(LoopPieces, MaxLoopPieces), LoopMappings)

SpecLoop == InitLoop /\ [][NextTemplate]_vars

\* the exception of the first member that raised one, or the joined outputs
RefJoin(rs) ==
  LET bad == {i \in 1..Len(rs) : rs[i].err # ""}
  IN IF bad # {} THEN Raise(rs[CHOOSE i \in bad : \A j \in bad : i <= j].err)
     ELSE IF \E i \in 1..Len(rs) : rs[i].val.t # "str" THEN Raise("TypeError")
     ELSE Ok(Str(Join([i \in 1..Len(rs) |-> rs[i].val.s])))

RECURSIVE Loops(_)
\* the loops of a body, nested ones included
Loops(nodes) ==
  UNION {IF nodes[i].k = "loop" THEN {nodes[i]} \cup Loops(nodes[i].body)
         ELSE {} : i \in 1..Len(nodes)}

\* the elements of a value a loop can run over
Elements(value) ==
  IF Iterate(value).err # "" THEN {}
  ELSE {Iterate(value).items[j] : j \in 1..Len(Iterate(value).items)}

\* the mappings a loop of the template is evaluated under: the caller's, and
\* the caller's with an alias bound to an element of one of its values
LoopEnvs(nodes) ==
  {kwds} \cup
    {Bind(kwds, loop.alias, e) :
       loop \in Loops(nodes), e \in UNION {Elements(kwds[x]) : x \in DOMAIN kwds}}

\* the evaluations of a loop's body, one per element, each under the mapping
\* with the alias bound to that element
PerElement(loop, env) ==
  LET items == Iterate(GetValue(loop.tag, env).val).items
  IN [j \in 1..Len(items) |->
        JoinParse(loop.body, Bind(env, loop.alias, items[j]), tag_functions)]

\* C3: a loop whose collection tag resolves to a sequence of N elements parses
\* to the concatenation of N evaluations of its body, one per element in
\* iteration order with the alias bound to that element (the first exception
\* of an evaluation leaves the loop); for N = 0 it parses to the empty string
\* without error; a template that is one loop parses to that concatenation.
C3_LoopCardinality ==
  tmpl.err = "" =>
    /\ \A loop \in Loops(tmpl.t.body) : \A env \in LoopEnvs(tmpl.t.body) :
         LET got == GetValue(loop.tag, env)
         IN (got.err = "" /\ Iterate(got.val).err = "") =>
              /\ LoopParse(loop, env, tag_functions)
                   = RefJoin(PerElement(loop, env))
              /\ Len(Iterate(got.val).items) = 0 =>
                   LoopParse(loop, env, tag_functions) = Ok(Str(""))
    /\ ( /\ result.op = "Parse"
         /\ Len(tmpl.t.body) = 1
         /\ tmpl.t.body[1].k = "loop"
         /\ "xs" \in DOMAIN kwds ) =>
         /\ result.err = RefJoin(PerElement(tmpl.t.body[1], kwds)).err
         /\ result.err = "" =>
              result.val.s = RefJoin(PerElement(tmpl.t.body[1], kwds)).val.s

\* a Parse of one loop over three elements, the second of them empty
C3_Witness ==
  /\ result.op = "Parse"
  /\ raw = "{{ for n in [xs] }}[n]a{{ endfor }}"
  /\ "xs" \in DOMAIN kwds
  /\ kwds["xs"] = List(<<Str("uv"), Str(""), Str("<")>>)
  /\ result.val.s = "uvaa&lt;a"

\* the mapping a loop body sees: the enclosing one, the alias shadowing it
Shadow(env, alias, value) ==
  [n \in DOMAIN env \cup {alias} |-> IF n = alias THEN value ELSE env[n]]

RECURSIVE Scoped(_, _)
\* what a node contributes under lexical scoping: a tag resolves against the
\* mapping of its position, and a loop hands its body the mapping of its own
\* position with the alias shadowed, once per element
Scoped(node, env) ==
  CASE node.k = "text" -> Ok(Str(node.s))
    [] node.k = "tag" -> TagParse(node, env, tag_functions)
    [] node.k = "loop" ->
         LET got == GetValue(node.tag, env)
             it == Iterate(got.val)
         IN IF got.err # "" THEN Raise(got.err)
            ELSE IF it.err # "" THEN Raise(it.err)
            ELSE RefJoin([j \in 1..Len(it.items) |->
                   RefJoin([i \in 1..Len(node.body) |->
                     Scoped(node.body[i],
                            Shadow(env, node.alias, it.items[j]))])])
    [] OTHER -> Raise("Unmodelled")

\* C4: a name that is also a loop alias resolves to the current element in
\* the loop's body, nested loops that reuse the alias included, and to the
\* caller's value in every node outside the loop, the node after endfor
\* included: Parse gives each top-level node the caller's mapping whatever
\* loops were evaluated before it.
C4_ScopeShadowing ==
  (result.op = "Parse" /\ raw \notin FeedTemplates) =>
    LET ref == RefJoin([i \in 1..Len(tmpl.t.body) |->
                          Scoped(tmpl.t.body[i], kwds)])
    IN /\ result.err = ref.err
       /\ result.err = "" => result.val.s = ref.val.s

\* a Parse whose alias n is also a name of the caller: the outer loop binds it
\* to "uv", the nested loop to "u" and "v", and the tag after the outer endfor
\* gets the caller's "o"
C4_Witness ==
  /\ result.op = "Parse"
  /\ raw = "{{ for n in [xs] }}{{ for n in [n] }}[n]{{ endfor }}[n]{{ endfor }}[n]"
  /\ "n" \in DOMAIN kwds
  /\ kwds["n"] = Str("o")
  /\ kwds["xs"] = List(<<Str("uv"), Str(""), Str("<")>>)
  /\ result.val.s = "uvuv&lt;&lt;o"

\* the names of the {{ }} blocks of a raw template, in order
Blocks(template) ==
  LET nodes == FunctionSplit(template)
  IN [i \in 1..(Len(nodes) \div 2) |-> Words(nodes[2 * i])[1]]

RECURSIVE Nesting(_, _)
\* the number of loops left open by a list of blocks read at the given depth;
\* -1 when an endfor comes with no loop open
Nesting(names, depth) ==
  IF Len(names) = 0 THEN depth
  ELSE IF Head(names) = "for" THEN Nesting(Tail(names), depth + 1)
  ELSE IF Head(names) = "endfor"
       THEN IF depth = 0 THEN -1 ELSE Nesting(Tail(names), depth - 1)
  ELSE Nesting(Tail(names), depth)

\* C7: Template(raw) returns a Template only when the for and endfor blocks of
\* raw are nested and balanced: a for without endfor and an endfor with no
\* loop open raise TemplateSyntaxError, and a Template that was returned has
\* its scope stack at the depth it had before the raw template was added.
C7_Balanced ==
  tmpl.err # "unbuilt" =>
    /\ tmpl.err = "" =>
         /\ Nesting(Blocks(raw), 0) = 0
         /\ Len(tmpl.t.scopes) = Len(EmptyTemplate(FALSE).scopes)
    /\ Nesting(Blocks(raw), 0) # 0 => tmpl.err = "TemplateSyntaxError"

\* a construction that failed on a loop left open around a closed one
C7_Witness ==
  /\ raw = "{{ for n in [xs] }}{{ for n in [n] }}[n]{{ endfor }}[n]"
  /\ tmpl.err = "TemplateSyntaxError"
  /\ result.op = "Template"

\* ----------------------------------------------- templates of conditionals

\* the most pieces of a raw template of conditionals
MaxCondPieces == 4

CondPieces ==
  {"{{ if [p] }}1", "{{ elif [q] or [z] }}2", "{{ elif [z] == 5 }}3",
   "{{ else }}4", "{{ endif }}", "[p]"}

CondMappings ==
  { EmptyMap,
    [n \in {"p", "q"} |-> IF n = "p" THEN PyInt(1) ELSE PyInt(0)],
    [n \in {"p", "q"} |-> IF n = "p" THEN PyInt(0) ELSE Str("t")],
    [n \in {"p", "q"} |-> IF n = "p" THEN Str("") ELSE List(<<>>)],
    [n \in {"p", "q", "z"} |-> IF n = "z" THEN PyInt(5) ELSE None] }

InitCond == InitTemplate(Concats(CondPieces, MaxCondPieces), CondMappings)

SpecCond == InitCond /\ [][NextTemplate]_vars

RECURSIVE Operands(_)
\* the operands of a guard: its words between the `or`s
Operands(words) ==
  LET cut == CHOOSE i \in 1..(Len(words) + 1) :
               /\ i = Len(words) + 1 \/ words[i] = "or"
               /\ \A j \in 1..(i - 1) : words[j] # "or"
  IN IF cut > Len(words) THEN <<words>>
     ELSE <<SubSeq(words, 1, cut - 1)>>
            \o Operands(SubSeq(words, cut + 1, Len(words)))

\* "true", "false" or "error": what evaluating one operand gives
OperandVal(words, env) ==
  IF Len(words) = 0 THEN "error"
  ELSE IF EvalOperand(words, env).err # "" THEN "error"
  ELSE IF EvalOperand(words, env).truth THEN "true" ELSE "false"

\* a guard holds when an operand is true and every operand before it is
\* false; it fails when all are false; whatever stands after the first true
\* operand plays no part
GuardVal(branch, env) ==
  LET ops == Operands(branch.guard)
  IN IF branch.isElse THEN "true"
     ELSE IF \E i \in 1..Len(ops) :
               /\ OperandVal(ops[i], env) = "true"
               /\ \A j \in 1..(i - 1) : OperandVal(ops[j], env) = "false"
          THEN "true"
     ELSE IF \A i \in 1..Len(ops) : OperandVal(ops[i], env) = "false"
          THEN "false"
     ELSE "error"

\* the branches whose guard holds while every guard before it fails
Chosen(cond, env) ==
  {i \in 1..Len(cond.branches) :
     /\ GuardVal(cond.branches[i], env) = "true"
     /\ \A j \in 1..(i - 1) : GuardVal(cond.branches[j], env) = "false"}

\* the conditionals at the top level of a body
Conditionals(nodes) ==
  {nodes[i] : i \in {i \in 1..Len(nodes) : nodes[i].k = "cond"}}

RECURSIVE CondScan(_, _)
\* reads the blocks of a raw template with a stack that tells, for each open
\* conditional, whether its else was seen: TRUE when every clause has an open
\* conditional, nothing follows an else but endif, and no conditional stays
\* open
CondScan(names, stack) ==
  IF Len(names) = 0 THEN Len(stack) = 0
  ELSE CASE Head(names) = "if" ->
              CondScan(Tail(names), Append(stack, FALSE))
         [] Head(names) = "elif" ->
              Len(stack) > 0 /\ ~Last(stack) /\ CondScan(Tail(names), stack)
         [] Head(names) = "else" ->
              /\ Len(stack) > 0
              /\ ~Last(stack)
              /\ CondScan(Tail(names), Append(Front(stack), TRUE))
         [] Head(names) = "endif" ->
              Len(stack) > 0 /\ CondScan(Tail(names), Front(stack))
         [] OTHER -> CondScan(Tail(names), stack)

Names == {"t", "sub"}

\* what the file of a template may hold
FileContents(name) ==
  IF name = "t" THEN {"a[x]", "b{{ inline sub }}"} ELSE {"a[x]", "s"}

FileStates(name) ==
  {NoFile} \cup {File(content) : content \in FileContents(name)}

\* the preloads of Parser(path, templates)
Preloads == {<<"t">>, <<"sub">>, <<"sub", "t">>}

\* the replacements of Parser.Parse
ParseMappings == {[n \in {"x"} |-> Str("<")]}

\* a str stored in the Parser: it has no Parse method
RawString(source) == [k |-> "str", s |-> source]

\* the source of the Template a caller builds and stores, and the source a
\* caller stores as it is
TemplateSource == "p[x]"

StringSource == "r[x]"

\* Template(source), built by the caller with no Parser attached
Prebuilt(source) ==
  NewTemplate(source, FALSE, World(EmptyMap), EmptyMap, MaxDepth).t

\* the names a raw template inlines
InlineNames(content) ==
  LET nodes == FunctionSplit(content)
  IN {Words(nodes[2 * i])[2] :
        i \in {i \in 1..(Len(nodes) \div 2) :
                 /\ Len(Words(nodes[2 * i])) > 1
                 /\ Words(nodes[2 * i])[1] = "inline"}}

\* history of a load from file: the content read, and the entries of the
\* templates it inlines as they were when the load ended
FileLoad(name, dict) ==
  [kind |-> "file", content |-> files[name].content,
   subs |-> [m \in InlineNames(files[name].content) \cap DOMAIN dict |->
               dict[m]]]

\* history of an assignment Parser[name] = value
Assigned(kind, source) ==
  [kind |-> kind, content |-> source, subs |-> EmptyMap]

\* the history after a call that took the dict from before to after; added is
\* the set of names the call itself passed to AddTemplate with success
Loaded(before, after, added) ==
  [m \in DOMAIN after |->
     IF m \in added \/ m \notin DOMAIN before THEN FileLoad(m, after)
     ELSE loaded[m]]

\* a template file is written or removed
EditFile(name, state) ==
  /\ files[name] # state
  /\ files' = [files EXCEPT ![name] = state]
  /\ result' = [NoResult EXCEPT !.op = "edit", !.name = name]
  /\ UNCHANGED <<adding, callers, cache, loaded, tag_functions, raw, kwds, tmpl>>

\* parser[name]
GetItemOp(name) ==
  LET Done(r) ==
        /\ cache' = r.w.cache
        /\ loaded' = Loaded(cache, r.w.cache, {})
        /\ result' = [NoResult EXCEPT !.op = "getitem", !.name = name,
                                      !.err = r.err, !.val = r.val,
                                      !.reads = r.w.reads,
                                      !.hit = name \in DOMAIN cache]
  IN /\ Done(GetItem(World(cache), name, files, MaxDepth))
     /\ UNCHANGED <<adding, callers, files, tag_functions, raw, kwds, tmpl>>

\* parser.AddTemplate(name)
AddTemplateOp(name) ==
  LET Done(r) ==
        /\ cache' = r.w.cache
        /\ loaded' = Loaded(cache, r.w.cache,
                            IF r.err = "" THEN {name} ELSE {})
        /\ result' = [NoResult EXCEPT !.op = "addtemplate", !.name = name,
                                      !.err = r.err, !.reads = r.w.reads,
                                      !.hit = name \in DOMAIN cache]
  IN /\ Done(AddTemplate(World(cache), name, files, MaxDepth))
     /\ UNCHANGED <<adding, callers, files, tag_functions, raw, kwds, tmpl>>

\* parser.Parse(name, **replacements)
ParseOp(name, replacements) ==
  LET Done(r) ==
        /\ cache' = r.w.cache
        /\ loaded' = Loaded(cache, r.w.cache, {})
        /\ result' = [NoResult EXCEPT !.op = "parse", !.name = name,
                                      !.err = r.err, !.val = r.val,
                                      !.reads = r.w.reads,
                                      !.hit = name \in DOMAIN cache]
  IN /\ Done(ParserParse(World(cache), name, replacements, tag_functions,
                         files, MaxDepth))
     /\ kwds' = replacements
     /\ UNCHANGED <<adding, callers, files, tag_functions, raw, tmpl>>

\* parser[name] = value: Parser defines no __setitem__, so this is dict's
SetItemOp(name, kind) ==
  /\ cache' = Bind(cache, name,
                   IF kind = "template" THEN Prebuilt(TemplateSource)
                   ELSE RawString(StringSource))
  /\ loaded' = Bind(loaded, name,
                    Assigned(kind, IF kind = "template" THEN TemplateSource
                                   ELSE StringSource))
  /\ result' = [NoResult EXCEPT !.op = "setitem", !.name = name]
  /\ UNCHANGED <<adding, callers, files, tag_functions, raw, kwds, tmpl>>

\* parser = Parser(path, templates): the caller's parser is replaced by the
\* new one when the constructor returns; when it raises, the caller is left
\* with the parser it had, and built tells what the dict under construction
\* held
NewParserOp(templates) ==
  LET Done(r) ==
        /\ cache' = IF r.err = "" THEN r.w.cache ELSE cache
        /\ loaded' = IF r.err = ""
                     THEN [m \in DOMAIN r.w.cache |-> FileLoad(m, r.w.cache)]
                     ELSE loaded
        /\ result' = [NoResult EXCEPT !.op = "init", !.templates = templates,
                                      !.err = r.err, !.reads = r.w.reads,
                                      !.built = DOMAIN r.w.cache]
  IN /\ Done(AddTemplates(World(EmptyMap), templates, files, MaxDepth))
     /\ UNCHANGED <<adding, callers, files, tag_functions, raw, kwds, tmpl>>

\* the raw templates of Parser.ParseString
ParseStrings == {"c[x]", "d{{ inline t }}[x]"}

\* parser.ParseString(template, **replacements)
ParseStringOp(template, replacements) ==
  LET Done(r) ==
        /\ cache' = r.w.cache
        /\ loaded' = Loaded(cache, r.w.cache, {})
        /\ result' = [NoResult EXCEPT !.op = "parsestring", !.err = r.err,
                                      !.val = r.val, !.reads = r.w.reads]
  IN /\ Done(ParseString(World(cache), template, replacements, tag_functions,
                         files, MaxDepth))
     /\ raw' = template
     /\ kwds' = replacements
     /\ UNCHANGED <<adding, callers, files, tag_functions, tmpl>>

\* a Parser with no preloads, in an empty template directory
Init ==
  /\ files = [n \in Names |-> NoFile]
  /\ cache = EmptyMap
  /\ loaded = EmptyMap
  /\ tag_functions = TAG_FUNCTIONS
  /\ raw = ""
  /\ kwds = EmptyMap
  /\ tmpl = NoTemplate
  /\ result = NoResult
  /\ callers = NoCallers
  /\ adding = NotAdding

Next ==
  \/ \E name \in Names : \E state \in FileStates(name) : EditFile(name, state)
  \/ \E name \in Names : GetItemOp(name)
  \/ \E name \in Names : AddTemplateOp(name)
  \/ \E name \in Names, replacements \in ParseMappings :
       ParseOp(name, replacements)
  \/ \E name \in Names, kind \in {"template", "str"} : SetItemOp(name, kind)
  \/ \E templates \in Preloads : NewParserOp(templates)
  \/ \E template \in ParseStrings, replacements \in ParseMappings :
       ParseStringOp(template, replacements)

Spec == Init /\ [][Next]_vars

\* a template directory in which no file can be opened
NoFiles == [n \in Names |-> NoFile]

\* the Template a load from file produced, by its history: the content read,
\* compiled with the inlined templates as they were
Expected(name) ==
  NewTemplate(loaded[name].content, TRUE, World(loaded[name].subs), NoFiles,
              MaxDepth).t

\* C8: after any sequence of file edits, reads and AddTemplate calls, the
\* entry of a name loaded from file, and what Parser[name] returns for it, is
\* the Template compiled from the content the file had at the most recent
\* load of the name; a read of a cached name opens no file; AddTemplate opens
\* the file and leaves under the name the compilation of its current content.
C8_CachedCompile ==
  /\ \A n \in DOMAIN cache :
       loaded[n].kind = "file" => cache[n] = Expected(n)
  /\ (result.op = "getitem" /\ result.err = "") =>
       /\ result.val = cache[result.name]
       /\ loaded[result.name].kind = "file" =>
            result.val = Expected(result.name)
       /\ result.hit => result.reads = 0
  /\ (result.op = "addtemplate" /\ result.err = "") =>
       /\ result.reads >= 1
       /\ cache[result.name]
            = NewTemplate(files[result.name].content, TRUE, World(cache),
                          files, MaxDepth).t

\* a read of a cached name after its file was rewritten: the Template of the
\* old content comes back
C8_Witness ==
  /\ result.op = "getitem"
  /\ result.name = "t"
  /\ result.err = ""
  /\ result.hit
  /\ loaded["t"].kind = "file"
  /\ loaded["t"].content = "a[x]"
  /\ files["t"] = File("b{{ inline sub }}")
  /\ result.val
       = NewTemplate("a[x]", TRUE, World(EmptyMap), NoFiles, MaxDepth).t

\* C9: a call that opens the file of a template that cannot be opened, that is
\* Parser[name] and Parser.Parse(name) for a name not cached,
\* Parser.AddTemplate(name) and Parser(path, templates=[name]), raises
\* TemplateReadError after one attempt to open a file and leaves the cache as
\* it was: no entry for name is made, and an entry cached under name stays.
C9_ReadError ==
  [][\A n \in Names :
       ( /\ ~files[n].exists
         /\ \/ /\ result'.op \in {"getitem", "parse"}
               /\ result'.name = n
               /\ n \notin DOMAIN cache
            \/ result'.op = "addtemplate" /\ result'.name = n
            \/ result'.op = "init" /\ result'.templates = <<n>> )
       => /\ result'.err = "TemplateReadError"
          /\ result'.reads = 1
          /\ cache' = cache
          /\ n \notin result'.built]_vars

\* an AddTemplate of a cached name whose file was removed: it raised, and the
\* entry is still there
C9_Witness ==
  /\ result.op = "addtemplate"
  /\ result.err = "TemplateReadError"
  /\ result.reads = 1
  /\ ~files[result.name].exists
  /\ result.name \in DOMAIN cache
  /\ loaded[result.name].kind = "file"

\* C10: after Parser[name] = value, with value a Template or a raw template
\* string, Parser.Parse(name, **replacements) returns the rendering of that
\* template.
C10_AssignedUsable ==
  ( /\ result.op = "parse"
    /\ result.hit
    /\ loaded[result.name].kind \in {"template", "str"} ) =>
    /\ result.err = ""
    /\ result.val
         = TemplateParse(Prebuilt(loaded[result.name].content), kwds,
                         tag_functions).val

\* the part of C10 about a Template built by the caller
C10_PrebuiltUsable ==
  ( /\ result.op = "parse"
    /\ result.hit
    /\ loaded[result.name].kind = "template" ) =>
    /\ result.err = ""
    /\ result.val
         = TemplateParse(Prebuilt(loaded[result.name].content), kwds,
                         tag_functions).val

RECURSIVE InlineClosure(_, _)
\* the names a raw template inlines, and the names the files of these inline,
\* to n levels
InlineClosure(content, n) ==
  IF n = 0 THEN {}
  ELSE LET direct == InlineNames(content)
       IN direct \cup
          UNION {InlineClosure(files[m].content, n - 1) :
                   m \in {m \in direct \cap Names : files[m].exists}}

RegisterNames == {"f", "html"}

RegisterFunctions == {"twice", "identity"}

\* Parser.RegisterFunction(name, function), called with the Template built
RegisterFunctionOp(name, function) ==
  /\ tmpl.err = ""
  /\ tag_functions' = Bind(tag_functions, name, function)
  /\ result' = [NoResult EXCEPT !.op = "RegisterFunction", !.name = name,
                                !.val = Str(function)]
  /\ UNCHANGED <<adding, callers, files, cache, loaded, raw, kwds, tmpl>>

\* tmpl.Parse(**kwds) with the registry TAG_FUNCTIONS had when the module was
\* loaded
ReparseStale ==
  /\ tmpl.err = ""
  /\ result.op \notin {"Template", "Parse"}
  /\ LET r == TemplateParse(tmpl.t, kwds, TAG_FUNCTIONS)
     IN result' = [NoResult EXCEPT !.op = "Parse", !.err = r.err,
                                   !.val = r.val]
  /\ UNCHANGED <<adding, callers, files, cache, loaded, tag_functions, raw, kwds, tmpl>>

\* result = tmpl.Parse(**kwds), of a Template parsed or left alone before
Reparse ==
  /\ tmpl.err = ""
  /\ result.op \notin {"Template", "Parse"}
  /\ LET r == TemplateParse(tmpl.t, kwds, tag_functions)
     IN result' = [NoResult EXCEPT !.op = "Parse", !.err = r.err,
                                   !.val = r.val]
  /\ UNCHANGED <<adding, callers, files, cache, loaded, tag_functions, raw, kwds, tmpl>>

\* the most pieces of a raw template of tags with functions
MaxFuncPieces == 2

FuncPieces ==
  {"[x|f]", "[x|f|html]", "[x:0|f]", "[x|g]", "[z|g]", "[z:0|g|f]", "[x]", "t"}

FuncMappings ==
  { EmptyMap,
    [n \in {"x"} |-> Str("a&")],
    [n \in {"x"} |-> PyInt(3)],
    [n \in {"x"} |-> List(<<Str("b")>>)] }

\* the registry as the module makes it, or with a function a caller registered
\* under f before the Template was built
InitFunc ==
  /\ files = [n \in {"sub"} |-> File("sub [x]")]
  /\ cache = EmptyMap
  /\ loaded = EmptyMap
  /\ tag_functions \in {TAG_FUNCTIONS, Bind(TAG_FUNCTIONS, "f", "identity")}
  /\ raw \in Concats(FuncPieces, MaxFuncPieces)
  /\ kwds \in FuncMappings
  /\ tmpl = NoTemplate
  /\ result = NoResult
  /\ callers = NoCallers
  /\ adding = NotAdding

NextFunc ==
  \/ Construct
  \/ ParseTemplate
  \/ Reparse
  \/ \E name \in RegisterNames, function \in RegisterFunctions :
       RegisterFunctionOp(name, function)

SpecFunc == InitFunc /\ [][NextFunc]_vars

\* the output of a tag whose value resolved to value, by the functions that
\* stand under the names of its pipeline in the registry now
RECURSIVE Piped(_, _)
Piped(value, names) ==
  IF Len(names) = 0 THEN Ok(value)
  ELSE IF Head(names) \notin DOMAIN tag_functions THEN Raise("KeyError")
  ELSE LET function == tag_functions[Head(names)]
           r == CASE function = "twice" ->
                       IF value.t = "str"
                       THEN Ok(Str(value.s \o " " \o value.s))
                       ELSE Raise("TypeError")
                  [] function = "identity" -> Ok(value)
                  [] function = "HtmlEscape" ->
                       Ok(SafeString(EscapedOnce(Unicode(value))))
                  [] OTHER -> ApplyFunction(function, value)
       IN IF r.err # "" THEN r ELSE Piped(r.val, Tail(names))

\* C12: functions are looked up by name when a tag is parsed: after
\* RegisterFunction(name, function) the registry holds function under name,
\* and every Parse after it, of a Template built before the registration too,
\* applies to each resolved value the functions that stand under the names of
\* the tag's pipeline at that moment; a second registration under a name
\* replaces the first. The registry is one for the module, so for the
\* Templates of every Parser.
C12_LateBinding ==
  /\ result.op = "RegisterFunction" =>
       /\ result.name \in DOMAIN tag_functions
       /\ tag_functions[result.name] = result.val.s
  /\ result.op = "Parse" =>
       LET pieces == TagSplit(raw)
           tag == [j \in 1..Len(pieces) |-> FromString(pieces[j])]
           got == [j \in 1..Len(pieces) |-> GetValue(tag[j], kwds)]
           part == [j \in 1..Len(pieces) |->
                      IF j % 2 = 1 THEN Ok(Str(pieces[j]))
                      ELSE IF got[j].err = "TemplateKeyError"
                      THEN Ok(Str("[" \o pieces[j] \o "]"))
                      ELSE IF got[j].err # "" THEN got[j]
                      ELSE Piped(got[j].val,
                                 IF Len(tag[j].functions) = 0
                                 THEN <<"default">> ELSE tag[j].functions)]
       IN IF \A j \in 1..Len(pieces) :
               part[j].err = "" /\ part[j].val.t = "str"
          THEN /\ result.err = ""
               /\ result.val.s
                    = Join([j \in 1..Len(pieces) |-> part[j].val.s])
          ELSE result.err # ""

\* a Parse of a Template built while f stood for another function: the
\* function registered since is the one applied, before the html a caller
\* registered anew
C12_Witness ==
  /\ result.op = "Parse"
  /\ raw = "[x|f|html]"
  /\ kwds = [n \in {"x"} |-> Str("a&")]
  /\ "f" \in DOMAIN tag_functions
  /\ tag_functions["f"] = "twice"
  /\ tag_functions["html"] = "twice"
  /\ result.err = ""
  /\ result.val.s = "a& a& a& a&"

C14_NoLookupError ==
  result.op = "Parse" => result.err # "TemplateKeyError"

\* C15: a tag with indices, one of which cannot be resolved on the value
\* reached, be the index numeric or not and the value a sequence, a mapping,
\* an object, a scalar or None, is parsed to its source text, and
\* TemplateTag.Parse raises nothing.
C15_IndexFallsBack ==
  result.op = "Parse" =>
    \A source \in TextTags(raw) :
      LET tag == FromString(source)
      IN ( /\ Len(tag.indices) > 0
           /\ tag.name \in DOMAIN kwds
           /\ GetValue(tag, kwds).err # "" ) =>
           TagParse(tag, kwds, tag_functions) = Ok(Str("[" \o source \o "]"))

\* --------------------------------------------------- templates that inline

\* the most pieces of a raw template that inlines
MaxInlinePieces == 4

InlinePieces ==
  {"{{ inline li }}", "{{ inline lp }}", "{{ for n in [ns] }}", "{{ endfor }}",
   "[n]"}

InlineMappings ==
  { [n \in {"n"} |-> Str("o")],
    [n \in {"n", "ns"} |->
       IF n = "n" THEN Str("o") ELSE List(<<Str("uv"), Str("<")>>)],
    [n \in {"ns"} |-> List(<<List(<<Str("p"), PyInt(2)>>)>>)] }

\* the template directory: a template of a tag, and one with a loop over the
\* name the including template binds
InlineFiles ==
  [n \in {"li", "lp"} |->
     IF n = "li" THEN File("<[n]>")
     ELSE File("{{ for c in [n] }}[c].{{ endfor }}")]

\* tmpl = Template(raw, parser=parser)
ConstructOwned ==
  LET Done(made) ==
        /\ tmpl' = [err |-> made.err, t |-> made.t]
        /\ cache' = made.w.cache
        /\ result' = [NoResult EXCEPT !.op = "Template", !.err = made.err,
                                      !.reads = made.w.reads]
  IN /\ tmpl.err = "unbuilt"
     /\ Done(NewTemplate(raw, TRUE, World(cache), files, MaxDepth))
     /\ UNCHANGED <<adding, callers, files, loaded, tag_functions, raw, kwds>>

\* ParseAgain with one dict of replacements kept from call to call
ParseAgainShared(replacements) ==
  LET shared == [n \in DOMAIN kwds \cup DOMAIN replacements |->
                   IF n \in DOMAIN replacements THEN replacements[n]
                   ELSE kwds[n]]
      Done(r) ==
        result' = [NoResult EXCEPT !.op = "Parse", !.err = r.err,
                                   !.val = r.val, !.hit = TRUE]
  IN /\ tmpl.err = ""
     /\ result.op = "Parse"
     /\ Done(TemplateParse(tmpl.t, shared, tag_functions))
     /\ kwds' = replacements
     /\ UNCHANGED <<adding, callers, files, cache, loaded, tag_functions, raw, tmpl>>

\* result = tmpl.Parse(**replacements), of a Template parsed before; hit
\* tells that it was
ParseAgain(replacements) ==
  LET Done(r) ==
        result' = [NoResult EXCEPT !.op = "Parse", !.err = r.err,
                                   !.val = r.val, !.hit = TRUE]
  IN /\ tmpl.err = ""
     /\ result.op = "Parse"
     /\ Done(TemplateParse(tmpl.t, replacements, tag_functions))
     /\ kwds' = replacements
     /\ UNCHANGED <<adding, callers, files, cache, loaded, tag_functions, raw, tmpl>>

InitInline ==
  /\ files = InlineFiles
  /\ cache = EmptyMap
  /\ loaded = EmptyMap
  /\ tag_functions = TAG_FUNCTIONS
  /\ raw \in Concats(InlinePieces, MaxInlinePieces)
  /\ kwds \in InlineMappings
  /\ tmpl = NoTemplate
  /\ result = NoResult
  /\ callers = NoCallers
  /\ adding = NotAdding

NextInline ==
  \/ Construct
  \/ ConstructOwned
  \/ ParseTemplate
  \/ \E replacements \in InlineMappings : ParseAgain(replacements)

SpecInline == InitInline /\ [][NextInline]_vars

RECURSIVE Flatten(_, _)
\* a raw template with the content of the file of each inline block put in
\* the place of the block, to n levels of inlining
Flatten(template, n) ==
  LET nodes == FunctionSplit(template)
      Inlines(node) ==
        Len(Words(node)) > 1 /\ Words(node)[1] = "inline" /\ n > 0
  IN Join([i \in 1..Len(nodes) |->
             IF i % 2 = 1 THEN nodes[i]
             ELSE IF Inlines(nodes[i])
             THEN Flatten(files[Words(nodes[i])[2]].content, n - 1)
             ELSE "{{ " \o nodes[i] \o " }}"])

\* the output the template of a raw string has under the replacements kwds
\* when each inline block stands for the content of its file
Rendering(template) ==
  TemplateParse(NewTemplate(Flatten(template, MaxDepth), FALSE,
                            World(EmptyMap), files, MaxDepth).t,
                kwds, tag_functions)

\* C16: an inline block compiled by a Template with no Parser attached reads
\* the file and puts its compiled content at that position of the Template,
\* so that the output of Parse holds the rendering of the inlined template
\* there.
C16_InlineWithoutParser ==
  ( /\ result.op = "Parse"
    /\ ~tmpl.t.parser
    /\ InlineNames(raw) # {} ) =>
    [err |-> result.err, val |-> result.val] = Rendering(raw)

\* C17: a template inlined through the Parser is parsed with the replacements
\* in force where it is inlined: inside a for loop it sees the alias bound to
\* the item of each iteration, also when it holds a loop over that alias, and
\* at top level it sees the replacements of the caller. The output is that of
\* the template with the inlined content written out in place.
C17_InlineScope ==
  (result.op = "Parse" /\ tmpl.t.parser) =>
    [err |-> result.err, val |-> result.val] = Rendering(raw)

\* a Parse of a loop that inlines a template with a loop over the alias, and
\* of the same template inlined at top level after the loop
C17_Witness ==
  /\ result.op = "Parse"
  /\ tmpl.t.parser
  /\ raw = "{{ for n in [ns] }}{{ inline lp }}{{ endfor }}{{ inline li }}"
  /\ DOMAIN kwds = {"n", "ns"}
  /\ result.err = ""
  /\ result.val.s = "u.v.&lt;.<o>"

\* ------------------------------------- two threads reading one Parser[name]

RECURSIVE TemplateStr(_)
\* str() of a Template, of a member of one, and of a str
TemplateStr(node) ==
  CASE node.k = "text" -> node.s
    [] node.k = "str" -> node.s
    [] node.k = "tag" -> TagStr(node)
    [] node.k = "loop" ->
         "{{ for " \o node.alias \o " in " \o TagStr(node.tag) \o " }}"
           \o Join([i \in 1..Len(node.body) |-> TemplateStr(node.body[i])])
           \o "{{ endfor }}"
    [] node.k = "tmpl" ->
         Join([i \in 1..Len(node.body) |-> TemplateStr(node.body[i])])

\* Template.__eq__
TemplateEq(self, other) ==
  other.k = "tmpl" /\ TemplateStr(other) = TemplateStr(self)

\* the threads, and the name both read
Callers == {"A", "B"}

RaceName == "t"

\* a thread about to evaluate Parser[RaceName]
Entering ==
  [pc |-> "check", made |-> EmptyTemplate(TRUE), err |-> "", val |-> None,
   wrote |-> 0]

\* the installs done so far
Writes == {callers[c].wrote : c \in Callers} \ {0}

\* `template not in self` of Parser.__getitem__
Check(c) ==
  /\ callers[c].pc = "check"
  /\ callers' = [callers EXCEPT ![c].pc =
                   IF RaceName \in DOMAIN cache THEN "read" ELSE "compile"]
  /\ UNCHANGED <<adding, files, cache, loaded, tag_functions, raw, kwds, tmpl, result>>

\* Template.FromFile(template_path, parser=self) of Parser.AddTemplate: the
\* templates the file inlines are read through the Parser
Compile(c) ==
  LET Done(made) ==
        /\ cache' = made.w.cache
        /\ loaded' = Loaded(cache, made.w.cache, {})
        /\ callers' = [callers EXCEPT ![c] =
                         IF made.err \in IOErrors
                         THEN [@ EXCEPT !.pc = "done",
                                        !.err = "TemplateReadError"]
                         ELSE IF made.err # ""
                         THEN [@ EXCEPT !.pc = "done", !.err = made.err]
                         ELSE [@ EXCEPT !.pc = "install", !.made = made.t]]
  IN /\ callers[c].pc = "compile"
     /\ Done(FromFile(RaceName, TRUE, World(cache), files, MaxDepth))
     /\ UNCHANGED <<adding, files, tag_functions, raw, kwds, tmpl, result>>

\* self[template] = ... of Parser.AddTemplate
Install(c) ==
  /\ callers[c].pc = "install"
  /\ cache' = Bind(cache, RaceName, callers[c].made)
  /\ loaded' = Loaded(cache, cache', {RaceName})
  /\ callers' = [callers EXCEPT ![c].pc = "read",
                                ![c].wrote = Cardinality(Writes) + 1]
  /\ UNCHANGED <<adding, files, tag_functions, raw, kwds, tmpl, result>>

\* a read that takes the entry out of the dict
ReadPop(c) ==
  /\ callers[c].pc = "read"
  /\ cache' = [n \in DOMAIN cache \ {RaceName} |-> cache[n]]
  /\ loaded' = [n \in DOMAIN loaded \ {RaceName} |-> loaded[n]]
  /\ callers' = [callers EXCEPT ![c] =
                   IF RaceName \in DOMAIN cache
                   THEN [@ EXCEPT !.pc = "done", !.val = cache[RaceName]]
                   ELSE [@ EXCEPT !.pc = "done", !.err = "KeyError"]]
  /\ UNCHANGED <<adding, files, tag_functions, raw, kwds, tmpl, result>>

\* super(Parser, self).__getitem__(template) of Parser.__getitem__
Read(c) ==
  /\ callers[c].pc = "read"
  /\ callers' = [callers EXCEPT ![c] =
                   IF RaceName \in DOMAIN cache
                   THEN [@ EXCEPT !.pc = "done", !.val = cache[RaceName]]
                   ELSE [@ EXCEPT !.pc = "done", !.err = "KeyError"]]
  /\ UNCHANGED <<adding, files, cache, loaded, tag_functions, raw, kwds, tmpl, result>>

\* both threads enter with the name not cached; the files stay as they are
InitRace ==
  /\ files \in [Names -> UNION {FileStates(n) : n \in Names}]
  /\ \A n \in Names : files[n] \in FileStates(n)
  /\ cache = EmptyMap
  /\ loaded = EmptyMap
  /\ tag_functions = TAG_FUNCTIONS
  /\ raw = ""
  /\ kwds = EmptyMap
  /\ tmpl = NoTemplate
  /\ result = NoResult
  /\ callers = [c \in Callers |-> Entering]
  /\ adding = NotAdding

NextRace == \E c \in Callers : Check(c) \/ Compile(c) \/ Install(c) \/ Read(c)

SpecRace == InitRace /\ [][NextRace]_vars

\* the compilation of the file of RaceName
Compilation == FromFile(RaceName, TRUE, World(cache), files, MaxDepth)

\* C18: two threads make the first read Parser[name] of one uncached name
\* while the file stays as it is, their membership checks, compilations,
\* installs and reads interleaved in any way: each thread that has returned
\* got a Template equal to the compilation of the file, and once a thread has
\* installed, the cache holds under name one entry, the Template of the thread
\* that installed last, equal to that compilation.
C18_RaceFirstRead ==
  Compilation.err = "" =>
    /\ \A c \in Callers :
         callers[c].pc = "done" =>
           /\ callers[c].err = ""
           /\ callers[c].val.k = "tmpl"
           /\ TemplateEq(callers[c].val, Compilation.t)
    /\ Writes # {} =>
         /\ RaceName \in DOMAIN cache
         /\ cache[RaceName] = Compilation.t
         /\ \E c \in Callers :
              /\ callers[c].wrote = Cardinality(Writes)
              /\ cache[RaceName] = callers[c].made

\* both threads missed, compiled and installed, B after A, and A read the
\* Template that B installed
C18_Witness ==
  /\ \A c \in Callers : callers[c].pc = "done" /\ callers[c].err = ""
  /\ callers["A"].wrote = 1
  /\ callers["B"].wrote = 2
  /\ files[RaceName] = File("b{{ inline sub }}")
  /\ cache[RaceName] = callers["B"].made
  /\ TemplateStr(callers["A"].val) = "bs"

\* the Template of the raw string as constructed, before any Parse
Fresh ==
  NewTemplate(raw, tmpl.t.parser, World(EmptyMap), files, MaxDepth).t

MaxLexPieces == 5

LexPieces == {"[", "]", "x", " ", "-"}

\* a mapping that holds every string of pieces a bracket pair can enclose,
\* with FAIL under the keys that are no tag names, and the empty mapping
LexMappings ==
  { EmptyMap,
    [n \in Concats(LexPieces, MaxLexPieces - 2) |->
       IF n # "" /\ \A i \in 1..Len(n) : Ch(n, i) = "x" THEN Str("V")
       ELSE Str("FAIL")] }

InitLex == InitTemplate(Concats(LexPieces, MaxLexPieces), LexMappings)

SpecLex == InitLex /\ [][NextTemplate]_vars

\* the characters a tag may hold: alphanumerics, underscore, colon and pipe
Permitted == WordChars \cup {":", "|"}

\* the bracket at i opens a pair that closes at j and holds permitted
\* characters, at least one
Encloses(s, i, j) ==
  /\ Ch(s, i) = "["
  /\ j > i + 1
  /\ j <= Len(s)
  /\ Ch(s, j) = "]"
  /\ \A k \in (i + 1)..(j - 1) : Ch(s, k) \in Permitted

RECURSIVE Bracketed(_, _)
\* the output for s from index i on, when the pairs that Encloses tells are
\* the tags and every other character is text
Bracketed(s, i) ==
  IF i > Len(s) THEN ""
  ELSE IF \E j \in 1..Len(s) : Encloses(s, i, j)
  THEN LET j == CHOOSE j \in 1..Len(s) : Encloses(s, i, j)
           content == SubSeq(s, i + 1, j - 1)
       IN (IF content \in DOMAIN kwds THEN kwds[content].s
           ELSE "[" \o content \o "]") \o Bracketed(s, j + 1)
  ELSE Ch(s, i) \o Bracketed(s, i + 1)

MaxAddStrings == 3

\* the raw templates given to Template(...) and to AddString
BuildStrings ==
  {"", "a[n]", "{{ for n in [xs] }}", "{{ endfor }}",
   "{{ for n in [xs] }}[n]{{ for m in [n] }}[m]{{ endfor }}{{ endfor }}",
   "{{ }}", "{{ nope }}", "{{ inline }}", "{{ inline sub }}",
   "{{ for n [xs] }}", "{{ for n of [xs] }}{{ endfor }}",
   "{{ for n in [xs]y }}{{ endfor }}", "[:0][|raw]",
   "{{ for n in [|] }}{{ endfor }}"}

\* Template(raw_template) up to its call of AddString, or
\* tmpl.AddString(raw_template) up to its loop; result.val keeps the Template
\* as the call found it, and result.name tells that the call is running
BeginAddString(raw_template) ==
  LET t == IF tmpl.err = "unbuilt" THEN EmptyTemplate(FALSE) ELSE tmpl.t
  IN /\ adding.i = 0
     /\ adding.calls < MaxAddStrings
     /\ tmpl.err = "unbuilt" \/ adding.held
     /\ tmpl' = [err |-> "", t |-> t]
     /\ adding' = [nodes |-> FunctionSplit(raw_template), i |-> 1,
                   scope_depth |-> Len(t.scopes), calls |-> adding.calls + 1,
                   held |-> adding.held]
     /\ raw' = raw_template
     /\ result' = [NoResult EXCEPT !.op = "AddString", !.name = "running",
                                   !.val = t]
     /\ UNCHANGED <<files, cache, loaded, tag_functions, kwds, callers>>

\* the call in progress is left with exception err, or returns
Leave(t, err, message) ==
  /\ tmpl' = [err |-> IF adding.held THEN "" ELSE err, t |-> t]
  /\ adding' = [adding EXCEPT !.nodes = <<>>, !.i = 0,
                              !.held = @ \/ err = ""]
  /\ result' = [result EXCEPT !.name = message, !.err = err]

\* one turn of the loop of AddString
ExtendStep ==
  LET Done(r) ==
        IF r.err # "" THEN Leave(r.t, r.err, "")
        ELSE /\ tmpl' = [tmpl EXCEPT !.t = r.t]
             /\ adding' = [adding EXCEPT !.i = @ + 1]
             /\ UNCHANGED result
  IN /\ adding.i \in 1..Len(adding.nodes)
     /\ Done(IF adding.i % 2 = 0
             THEN ExtendFunction(tmpl.t, adding.nodes[adding.i], World(cache),
                                 files, MaxDepth)
             ELSE Built("", ExtendText(tmpl.t, adding.nodes[adding.i]),
                        World(cache)))
     /\ UNCHANGED <<files, cache, loaded, tag_functions, raw, kwds, callers>>

\* EndAddString that puts the Template back as the call found it when the
\* scopes do not balance
EndAddStringRollback ==
  LET scope_diff == Len(tmpl.t.scopes) - adding.scope_depth
  IN /\ adding.i = Len(adding.nodes) + 1
     /\ CASE scope_diff < 0 ->
               Leave(result.val, "TemplateSyntaxError", "Closed too many")
          [] scope_diff > 0 ->
               Leave(result.val, "TemplateSyntaxError", "Left open")
          [] OTHER -> Leave(tmpl.t, "", "")
     /\ UNCHANGED <<files, cache, loaded, tag_functions, raw, kwds, callers>>

\* the comparison of the scope depths that ends AddString
EndAddString ==
  LET scope_diff == Len(tmpl.t.scopes) - adding.scope_depth
  IN /\ adding.i = Len(adding.nodes) + 1
     /\ CASE scope_diff < 0 ->
               Leave(tmpl.t, "TemplateSyntaxError", "Closed too many")
          [] scope_diff > 0 ->
               Leave(tmpl.t, "TemplateSyntaxError", "Left open")
          [] OTHER -> Leave(tmpl.t, "", "")
     /\ UNCHANGED <<files, cache, loaded, tag_functions, raw, kwds, callers>>

InitBuild ==
  /\ InitParser
  /\ raw = ""
  /\ kwds = EmptyMap
  /\ tmpl = NoTemplate
  /\ result = NoResult

NextBuild ==
  \/ \E raw_template \in BuildStrings : BeginAddString(raw_template)
  \/ ExtendStep
  \/ EndAddString

SpecBuild == InitBuild /\ [][NextBuild]_vars

RECURSIVE TagsOf(_)
\* the TemplateTags of a Template or of a member of one, those of the loops
\* included
TagsOf(node) ==
  CASE node.k = "tag" -> {node}
    [] node.k = "loop" ->
         {node.tag} \cup UNION {TagsOf(node.body[i]) : i \in 1..Len(node.body)}
    [] node.k = "tmpl" -> UNION {TagsOf(node.body[i]) : i \in 1..Len(node.body)}
    [] OTHER -> {}

\* C21: every TemplateTag of a compiled Template, in its text and as the
\* collection of a loop, has a name that is not empty and holds alphanumerics
\* and underscores only: bracket text that gives another name, as [:0],
\* [|raw] and [|] do, is not compiled to a tag.
C21_TagNames ==
  tmpl.err # "unbuilt" =>
    \A tag \in TagsOf(tmpl.t) :
      /\ Len(tag.name) > 0
      /\ \A i \in 1..Len(tag.name) : Ch(tag.name, i) \in WordChars

\* the keywords of the blocks
Keywords == {"inline", "for", "endfor", "if", "elif", "else", "endif"}

\* a block with no keyword or an unknown one, or a for block that is not
\* `for <alias> in <tag>` with one well-formed tag
Malformed(node) ==
  LET data == Words(node)
  IN \/ Len(data) = 0
     \/ data[1] \notin Keywords
     \/ /\ data[1] = "for"
        /\ ~ ( /\ Len(data) = 4
               /\ data[3] = "in"
               /\ Encloses(data[4], 1, Len(data[4])) )

\* C22: compiling a block with no keyword or an unsupported one, or a for
\* block whose arguments are not `<alias> in <tag>` with one well-formed tag,
\* raises TemplateSyntaxError: no other exception, and no acceptance.
C22_SyntaxErrors ==
  ( /\ result.op = "AddString"
    /\ result.name # "running"
    /\ \E i \in 1..Len(FunctionSplit(raw)) :
         i % 2 = 0 /\ Malformed(FunctionSplit(raw)[i]) ) =>
    result.err = "TemplateSyntaxError"

\* C26: in every state reached while compiling, over any texts, tags, inline,
\* for and endfor blocks and any number of AddString calls, the scope stack
\* is not empty, its bottom is the Template itself, and every scope above the
\* bottom is a TemplateLoop that is a member of the scope below it; so the
\* bottom is never popped.
C26_ScopeStack ==
  tmpl.err # "unbuilt" =>
    LET scopes == tmpl.t.scopes
    IN /\ Len(scopes) >= 1
       /\ scopes[1] = <<>>
       /\ \A k \in 2..Len(scopes) :
            /\ Len(scopes[k]) = Len(scopes[k - 1]) + 1
            /\ SubSeq(scopes[k], 1, Len(scopes[k - 1])) = scopes[k - 1]
            /\ scopes[k][Len(scopes[k])]
                 \in 1..Len(MembersAt(tmpl.t.body, scopes[k - 1]))
            /\ NodeAt(tmpl.t.body, scopes[k]).k = "loop"

\* inside the third AddString call, with two loops open, one in the other,
\* the outer left open by the call before
C26_Witness ==
  /\ adding.i > 1
  /\ adding.calls = 3
  /\ adding.scope_depth = 2
  /\ Len(tmpl.t.scopes) = 3
  /\ tmpl.t.scopes[3] = <<1, 1>>

\* C27: AddString on a constructed Template undoes nothing when it raises:
\* the members appended and the scopes pushed before the exception stay, as
\* Template.AddString leaves them, so that after a for left open the members
\* and the depth of the scopes differ from those before the call; an AddString
\* of the one endfor that follows raises for a scope closed too many and
\* leaves the scopes at depth 1.
C27_NoRollback ==
  ( /\ result.op = "AddString"
    /\ result.name # "running"
    /\ adding.calls >= 2 ) =>
    /\ result.err # "" =>
         /\ tmpl.t = AddString(result.val, raw, World(cache), files, MaxDepth).t
         /\ result.err
              = AddString(result.val, raw, World(cache), files, MaxDepth).err
    /\ result.name = "Left open" =>
         /\ Len(tmpl.t.scopes) > Len(result.val.scopes)
         /\ tmpl.t.body # result.val.body
    /\ (raw = "{{ endfor }}" /\ Len(result.val.scopes) = 2) =>
         /\ result.err = "TemplateSyntaxError"
         /\ result.name = "Closed too many"
         /\ Len(tmpl.t.scopes) = 1

\* the third call, AddString of an endfor, after the second left a for open:
\* it raised, and the loop of the second call is a member still
C27_Witness ==
  /\ result.op = "AddString"
  /\ result.name = "Closed too many"
  /\ adding.calls = 3
  /\ raw = "{{ endfor }}"
  /\ Len(result.val.scopes) = 2
  /\ Len(tmpl.t.scopes) = 1
  /\ Len(tmpl.t.body) = 1
  /\ tmpl.t.body[1].k = "loop"

\* ------------------------------------------------------- indices of a tag

\* the most indices of a tag
MaxIndices == 2

IndexNeedles == {"0", "1", "k", "a"}

\* one tag x with up to MaxIndices indices, its value left as it is
IndexRaws ==
  {"[x" \o Join([i \in 1..Len(p) |-> ":" \o p[i]]) \o "|raw]" :
     p \in UNION {[1..n -> IndexNeedles] : n \in 0..MaxIndices}}

\* a dict subclass with int keys, str keys and attributes of the same names
IndexInner ==
  Dict(EmptyMap,
       [k \in {"1", "k"} |-> IF k = "1" THEN Str("s1") ELSE Str("ik")],
       [k \in {"a"} |-> Str("ia")])

IndexMappings ==
  { EmptyMap,
    [n \in {"x"} |->
       Dict([k \in {0} |-> IndexInner],
            [k \in {"0", "k"} |-> IF k = "0" THEN Str("s0") ELSE Str("sk")],
            [k \in {"k", "a", "1"} |->
               CASE k = "k" -> Str("ak") [] k = "a" -> Str("aa")
                 [] OTHER -> Str("a1")])],
    [n \in {"x"} |->
       Object([k \in {"0", "k"} |->
                 IF k = "0" THEN Str("a0")
                 ELSE List(<<Str("p"), Str("q")>>)])],
    [n \in {"x"} |->
       List(<<Str("ab"),
              Dict(EmptyMap, [k \in {"k"} |-> Str("lk")], EmptyMap)>>)],
    [n \in {"x"} |-> Str("ab")] }

InitIndex == InitTemplate(IndexRaws, IndexMappings)

SpecIndex == InitIndex /\ [][NextTemplate]_vars

\* the lookups an index stands for, in the order of their trial
Tried(haystack, needle) ==
  IF IsDigit(needle)
  THEN <<SubscriptInt(haystack, ToInt(needle)), SubscriptStr(haystack, needle)>>
  ELSE <<SubscriptStr(haystack, needle), GetAttr(haystack, needle)>>

\* the first of two lookups that finds something
FirstFound(lookups) ==
  CASE lookups[1].err = "" -> lookups[1]
    [] lookups[2].err = "" -> lookups[2]
    [] OTHER -> Raise("NotFound")

RECURSIVE Resolved(_, _)
\* the indices resolved from left to right, each in the result of the one
\* before
Resolved(value, indices) ==
  IF Len(indices) = 0 THEN Ok(value)
  ELSE LET r == FirstFound(Tried(value, Head(indices)))
       IN IF r.err # "" THEN r ELSE Resolved(r.val, Tail(indices))

\* C23: an index of digits is the int subscript, and the str key only when
\* the int subscript finds nothing, never an attribute; any other index is the
\* str key, and the attribute only when the key finds nothing, so that a key
\* hides an attribute of its name; the indices of a tag are resolved from left
\* to right, each in the result of the one before.  A tag whose indices
\* resolve to a string parses to that string; one with an index that finds
\* nothing does not parse to a value.
C23_IndexOrder ==
  ( /\ result.op = "Parse"
    /\ raw \in IndexRaws
    /\ "x" \in DOMAIN kwds ) =>
    LET want == Resolved(kwds["x"],
                         FromString(SubSeq(raw, 2, Len(raw) - 1)).indices)
    IN IF want.err # "" THEN result.err # "" \/ result.val.s = raw
       ELSE IF want.val.t # "str" THEN result.err # ""
       ELSE result.err = "" /\ result.val.s = want.val.s

\* [x:0:1|raw] of a dict: its int key 0 is taken before its str key "0", and
\* in the dict found there the str key "1" for want of an int key 1
C23_Witness ==
  /\ result.op = "Parse"
  /\ result.err = ""
  /\ raw = "[x:0:1|raw]"
  /\ "x" \in DOMAIN kwds
  /\ kwds["x"].t = "dict"
  /\ result.val.s = "s1"

\* ----------------------------------------------------- pipelines of a tag

\* the most functions of a tag
MaxPipeline == 3

PipeNames == {"html", "url", "raw"}

\* a tag x with up to MaxPipeline functions, alone or before a tag without
PipeRaws ==
  {"[x" \o Join([i \in 1..Len(p) |-> "|" \o p[i]]) \o "]" \o q :
     p \in UNION {[1..n -> PipeNames] : n \in 0..MaxPipeline},
     q \in {"", "[y]", "-[x]"}}

PipeMappings ==
  { [n \in {"x", "y"} |-> IF n = "x" THEN Str("a b&") ELSE Str("<c>")],
    [n \in {"x", "y"} |-> IF n = "x" THEN SafeString("<i> &") ELSE Str("'")],
    [n \in {"x", "y"} |-> IF n = "x" THEN Str("\"q\"") ELSE SafeString("&")] }

InitPipe == InitTemplate(PipeRaws, PipeMappings)

SpecPipe == InitPipe /\ [][NextTemplate]_vars

\* what the function the module registers under a name makes of a string
PipeFunction(name, s) ==
  CASE name = "html" -> EscapedOnce(s)
    [] name = "url" -> Replace(Quote(s), " ", "+")
    [] name = "raw" -> s

RECURSIVE LeftToRight(_, _)
\* the last function of a pipeline, of what the functions before it made
LeftToRight(s, names) ==
  IF Len(names) = 0 THEN s
  ELSE PipeFunction(Last(names), LeftToRight(s, Front(names)))

\* the output of a tag of the given source whose name the mapping holds
PipeWant(source, mapping) ==
  LET tag == FromString(source)
      value == mapping[tag.name]
  IN IF Len(tag.functions) > 0 THEN LeftToRight(value.s, tag.functions)
     ELSE IF value.safe THEN value.s
     ELSE EscapedOnce(value.s)

\* C24: the functions a tag names are applied from left to right, each to
\* what the one before it made and each once for each time the tag names it,
\* and the default function is not applied besides; a tag that names no
\* function in the same template gets none of them.
C24_LeftToRight ==
  ( /\ result.op = "Parse"
    /\ raw \in PipeRaws ) =>
    LET pieces == TagSplit(raw)
    IN /\ result.err = ""
       /\ result.val.s
            = Join([j \in 1..Len(pieces) |->
                      IF j % 2 = 1 THEN pieces[j]
                      ELSE PipeWant(pieces[j], kwds)])

\* html before url, beside the same value under the default function alone
C24_Witness ==
  /\ result.op = "Parse"
  /\ result.err = ""
  /\ raw = "[x|html|url]-[x]"
  /\ kwds["x"] = Str("a b&")
  /\ result.val.s = "a+b%26amp%3B-a b&amp;"

\* -------------------------------------------------------------- HtmlEscape

\* the longest string escaped
MaxEscapeLen == 3

EscapeChars == {"&", "\"", "'", "<", ">", ";", "a", "#"}

EscapeRaws == {"[x]", "[x|html]"}

EscapeMappings ==
  {[n \in {"x"} |-> Str(s)] : s \in Concats(EscapeChars, MaxEscapeLen)}

InitEscape == InitTemplate(EscapeRaws, EscapeMappings)

SpecEscape == InitEscape /\ [][NextTemplate]_vars

\* C25: HtmlEscape of a string, as the default function and as html, is the
\* string with each of & " ' < > replaced by its entity and every other
\* character kept; the entities put in are not escaped again.
C25_HtmlEscape ==
  ( /\ result.op = "Parse"
    /\ raw \in EscapeRaws ) =>
    /\ result.err = ""
    /\ result.val.s = EscapedOnce(kwds["x"].s)
    /\ HtmlEscape(kwds["x"]).err = ""
    /\ HtmlEscape(kwds["x"]).val.s = EscapedOnce(kwds["x"].s)

\* a string with an apostrophe before an ampersand, escaped as html
C25_Witness ==
  /\ result.op = "Parse"
  /\ raw = "[x|html]"
  /\ kwds["x"] = Str("<'&")
  /\ result.val.s = "&lt;&#39;&amp;"

\* C28: a Template compiled from a file with an inline holds the Template the
\* Parser had under the inlined name when it was compiled: Parser.Parse of a
\* cached name renders the content read at its last load with the inlined
\* Templates as they were then, whatever AddTemplate or an assignment has put
\* under their names since; a new load of the name itself takes the new ones.
C28_InlineBinding ==
  ( /\ result.op = "parse"
    /\ result.hit
    /\ result.name \in DOMAIN loaded
    /\ loaded[result.name].kind = "file" ) =>
    [err |-> result.err, val |-> result.val]
      = TemplateParse(Expected(result.name), kwds, tag_functions)

\* Parse of t, loaded while sub held a[x]; the entry of sub is another by now
C28_Witness ==
  /\ result.op = "parse"
  /\ result.name = "t"
  /\ result.hit
  /\ loaded["t"].kind = "file"
  /\ loaded["t"].content = "b{{ inline sub }}"
  /\ "sub" \in DOMAIN cache
  /\ "sub" \in DOMAIN loaded["t"].subs
  /\ cache["sub"] # loaded["t"].subs["sub"]
  /\ loaded["sub"].kind \in {"file", "template"}
  /\ result.err = ""
  /\ result.val.s = "ba&lt;"

\* ------------------------------------------- loads of templates that inline

\* the deepest nesting of inlined Templates a reload starts from
MaxNesting == 2

\* what the file of a template may hold: texts, inlines of the other and of
\* itself, blocks left open or closed too many
LoadContents(name) ==
  IF name = "t"
  THEN {"a", "{{ inline sub }}b", "{{ inline t }}",
        "{{ inline sub }}{{ for n in [x] }}", "{{ for n in [x] }}"}
  ELSE {"s", "{{ inline t }}", "{{ inline sub }}", "{{ endfor }}"}

LoadStates(name) ==
  {NoFile} \cup {File(content) : content \in LoadContents(name)}

RECURSIVE InlineDepth(_)
\* how deep the Templates inlined in a node nest, the node included
InlineDepth(node) ==
  IF node.k \notin {"tmpl", "loop", "cond"} THEN 0
  ELSE LET inner == {InlineDepth(Members(node)[i]) :
                       i \in 1..Len(Members(node))}
           deepest == IF inner = {} THEN 0
                      ELSE CHOOSE d \in inner : \A e \in inner : e <= d
       IN deepest + (IF node.k = "tmpl" THEN 1 ELSE 0)

\* parser.AddTemplate(name), as long as the cached Templates nest no deeper
\* than MaxNesting
ReloadOp(name) ==
  /\ \A n \in DOMAIN cache : InlineDepth(cache[n]) <= MaxNesting
  /\ AddTemplateOp(name)

NextLoad ==
  \/ \E name \in Names : \E state \in LoadStates(name) : EditFile(name, state)
  \/ \E name \in Names : GetItemOp(name)
  \/ \E name \in Names : ReloadOp(name)

SpecLoad == Init /\ [][NextLoad]_vars

\* a name the dict lacks and whose file can be read
Pending(name, dict) ==
  name \in Names /\ name \notin DOMAIN dict /\ files[name].exists

\* the pending names the file of a name inlines
Inlined(name, dict) ==
  IF files[name].exists
  THEN {m \in InlineNames(files[name].content) : Pending(m, dict)}
  ELSE {}

RECURSIVE Reached(_, _, _)
\* the pending names reached from a set of them by k inlines at most
Reached(from, dict, k) ==
  IF k = 0 THEN from
  ELSE Reached(from \cup UNION {Inlined(n, dict) : n \in from}, dict, k - 1)

\* the pending names a load of the name comes to load, by the inlines alone
Descendants(name, dict) ==
  Reached(Inlined(name, dict), dict, Cardinality(Names))

\* a load of the name meets a pending name that inlines itself, directly or
\* through others
Cyclic(name, dict) ==
  \E m \in ({name} \cap {n \in Names : Pending(n, dict)})
             \cup Descendants(name, dict) :
    m \in Descendants(m, dict)

\* C29: a load through the Parser, by a miss of Parser[name] or by
\* AddTemplate, ends without exhausting the recursion when the inlines it
\* reaches make no cycle among the names the dict lacks; when it meets such a
\* name that inlines itself, directly or through others, it does not return:
\* it raises, and nothing is put under the name.
C29_LoadTermination ==
  [][\A n \in Names :
       ( /\ result'.name = n
         /\ \/ result'.op = "getitem" /\ n \notin DOMAIN cache
            \/ result'.op = "addtemplate" )
       => IF Cyclic(n, cache)
          THEN /\ result'.err # ""
               /\ n \in DOMAIN cache' =>
                    n \in DOMAIN cache /\ cache'[n] = cache[n]
          ELSE result'.err # "RuntimeError"]_vars

\* Parser[t] with nothing cached, t inlining sub and sub inlining t: the
\* recursion ran out
C29_Witness ==
  /\ result.op = "getitem"
  /\ result.name = "t"
  /\ result.err = "RuntimeError"
  /\ files["t"] = File("{{ inline sub }}b")
  /\ files["sub"] = File("{{ inline t }}")
  /\ cache = EmptyMap

RECURSIVE Closed(_)
\* a Template with no scope left open, whose inlined Templates are so too
Closed(node) ==
  /\ node.k = "tmpl" => node.scopes = << <<>> >>
  /\ node.k \in {"tmpl", "loop", "cond"} =>
       \A i \in 1..Len(Members(node)) : Closed(Members(node)[i])

\* the name of the inline a raw template begins with, if it begins with one
FirstInline(content) ==
  LET nodes == FunctionSplit(content)
  IN IF /\ Len(nodes) > 1
        /\ nodes[1] = ""
        /\ Len(Words(nodes[2])) > 1
        /\ Words(nodes[2])[1] = "inline"
     THEN {Words(nodes[2])[2]}
     ELSE {}

\* the dict a compilation of the name found, as far as the dict after it
\* tells: the entry of the name itself is the one from before
Found(name, before, after) ==
  [m \in DOMAIN after |->
     IF m = name /\ name \in DOMAIN before THEN before[name] ELSE after[m]]

\* C30: every entry AddTemplate or a miss of Parser[name] puts in the dict is
\* a Template compiled from the whole content of its file without an error,
\* with no scope left open; a load that raises TemplateSyntaxError or
\* TemplateReadError puts nothing under its name and leaves what was there,
\* while the template its file inlines first, where that one loads, is in the
\* dict afterwards.
C30_OnlyCompleteInstalled ==
  [][\A n \in Names :
       ( /\ result'.name = n
         /\ \/ result'.op = "getitem" /\ n \notin DOMAIN cache
            \/ result'.op = "addtemplate" )
       => /\ \A m \in DOMAIN cache' :
               cache'[m].k = "tmpl" /\ Closed(cache'[m])
          /\ result'.err = "" =>
               /\ n \in DOMAIN cache'
               /\ NewTemplate(files[n].content, TRUE,
                              World(Found(n, cache, cache')), NoFiles,
                              MaxDepth)
                    = Built("", cache'[n], World(Found(n, cache, cache')))
          /\ result'.err \in {"TemplateSyntaxError", "TemplateReadError"} =>
               /\ n \in DOMAIN cache' =>
                    n \in DOMAIN cache /\ cache'[n] = cache[n]
               /\ \A m \in DOMAIN cache : cache'[m] = cache[m]
               /\ \A m \in FirstInline(files[n].content) \ {n} :
                    GetItem(World(cache), m, files, MaxDepth).err = ""
                      => m \in DOMAIN cache']_vars

\* Parser[t] of a file that inlines sub and leaves a for open: it raised, t is
\* not in the dict and sub, loaded on the way, is
C30_Witness ==
  /\ result.op = "getitem"
  /\ result.name = "t"
  /\ result.err = "TemplateSyntaxError"
  /\ files["t"] = File("{{ inline sub }}{{ for n in [x] }}")
  /\ result.reads = 2
  /\ DOMAIN cache = {"sub"}
  /\ cache["sub"].scopes = << <<>> >>

====
